---- MODULE Spec2Model ----
(***************************************************************************)
(* SmartStockTracker: the demand forecasting engine of server/forecast.ts. *)
(*                                                                         *)
(* forecastDemand is modelled as a step machine (one step per statement    *)
(* group of the source), over the values a JavaScript Number can take:     *)
(* IEEE-754 binary64 with round-to-nearest-even, NaN, the infinities and   *)
(* signed zero.  A binary64 significand has 53 bits, more than a TLC       *)
(* integer holds, so significands are natural numbers kept as little-endian*)
(* sequences of 15-bit limbs (the BN operators).                           *)
(***************************************************************************)
EXTENDS Integers, Sequences, FiniteSets

(***************************************************************************)
(* Natural numbers of any size: <<l1, l2, ...>> is l1 + l2*B + l3*B^2 ...  *)
(* with every limb in 0..B-1 and no zero limb at the top; << >> is zero.   *)
(***************************************************************************)
LimbBits == 15

RECURSIVE Pow2(_)
Pow2(n) == IF n = 0 THEN 1 ELSE 2 * Pow2(n - 1)

LimbBase == Pow2(LimbBits)

RECURSIVE BNNorm(_)
BNNorm(a) ==
  IF a = << >> THEN << >>
  ELSE IF a[Len(a)] = 0 THEN BNNorm(SubSeq(a, 1, Len(a) - 1))
  ELSE a

RECURSIVE BNFromInt(_)
BNFromInt(n) ==
  IF n = 0 THEN << >>
  ELSE <<n % LimbBase>> \o BNFromInt(n \div LimbBase)

BNLimb(a, i) == IF i <= Len(a) THEN a[i] ELSE 0

BNMaxLen(a, b) == IF Len(a) >= Len(b) THEN Len(a) ELSE Len(b)

\* -1, 0, 1 as a < b, a = b, a > b (both normalised)
RECURSIVE BNCmpAt(_, _, _)
BNCmpAt(a, b, i) ==
  IF i = 0 THEN 0
  ELSE IF a[i] < b[i] THEN -1
  ELSE IF a[i] > b[i] THEN 1
  ELSE BNCmpAt(a, b, i - 1)

BNCmp(a, b) ==
  IF Len(a) < Len(b) THEN -1
  ELSE IF Len(a) > Len(b) THEN 1
  ELSE BNCmpAt(a, b, Len(a))

RECURSIVE BNAddAt(_, _, _, _, _)
BNAddAt(a, b, i, carry, n) ==
  IF i > n THEN (IF carry = 0 THEN << >> ELSE <<carry>>)
  ELSE LET t == BNLimb(a, i) + BNLimb(b, i) + carry
       IN  <<t % LimbBase>> \o BNAddAt(a, b, i + 1, t \div LimbBase, n)

BNAdd(a, b) == BNAddAt(a, b, 1, 0, BNMaxLen(a, b))

\* a - b for a >= b
RECURSIVE BNSubAt(_, _, _, _)
BNSubAt(a, b, i, borrow) ==
  IF i > Len(a) THEN << >>
  ELSE LET t == a[i] - BNLimb(b, i) - borrow
       IN  IF t < 0 THEN <<t + LimbBase>> \o BNSubAt(a, b, i + 1, 1)
           ELSE <<t>> \o BNSubAt(a, b, i + 1, 0)

BNSub(a, b) == BNNorm(BNSubAt(a, b, 1, 0))

\* a * k for 0 <= k < B
RECURSIVE BNMulSmallAt(_, _, _, _)
BNMulSmallAt(a, k, i, carry) ==
  IF i > Len(a) THEN (IF carry = 0 THEN << >> ELSE <<carry>>)
  ELSE LET t == a[i] * k + carry
       IN  <<t % LimbBase>> \o BNMulSmallAt(a, k, i + 1, t \div LimbBase)

BNMulSmall(a, k) == IF k = 0 THEN << >> ELSE BNMulSmallAt(a, k, 1, 0)

BNShlLimbs(a, n) == IF a = << >> THEN << >> ELSE [i \in 1..n |-> 0] \o a

RECURSIVE BNMulAt(_, _, _)
BNMulAt(a, b, i) ==
  IF i > Len(b) THEN << >>
  ELSE BNAdd(BNShlLimbs(BNMulSmall(a, b[i]), i - 1), BNMulAt(a, b, i + 1))

BNMul(a, b) == BNMulAt(a, b, 1)

\* a * 2^n
BNShl(a, n) == BNShlLimbs(BNMulSmall(a, Pow2(n % LimbBits)), n \div LimbBits)

\* floor(a / k) for 0 < k <= B, from the top limb down
RECURSIVE BNDivSmallAt(_, _, _, _)
BNDivSmallAt(a, k, i, rem) ==
  IF i = 0 THEN << >>
  ELSE LET t == rem * LimbBase + a[i]
       IN  BNDivSmallAt(a, k, i - 1, t % k) \o <<t \div k>>

BNDivSmall(a, k) == BNNorm(BNDivSmallAt(a, k, Len(a), 0))

\* floor(a / 2^n)
BNShr(a, n) ==
  LET limbs == n \div LimbBits
  IN  IF limbs >= Len(a) THEN << >>
      ELSE BNDivSmall(SubSeq(a, limbs + 1, Len(a)), Pow2(n % LimbBits))

RECURSIVE BitLenInt(_)
BitLenInt(n) == IF n = 0 THEN 0 ELSE 1 + BitLenInt(n \div 2)

BNBitLen(a) ==
  IF a = << >> THEN 0 ELSE LimbBits * (Len(a) - 1) + BitLenInt(a[Len(a)])

BNIsOdd(a) == a # << >> /\ a[1] % 2 = 1

(***************************************************************************)
(* JavaScript Numbers.  A finite value is (-1)^s * m * 2^e with m either   *)
(* zero (<< >>, e = 0) or a significand of exactly MantBits bits; "inf" and*)
(* "nan" are the IEEE specials.  The exponent is not capped: no value the  *)
(* bounded inputs produce leaves the binary64 exponent range.             *)
(***************************************************************************)
MantBits == 53

NaN == [k |-> "nan", s |-> 0, m |-> << >>, e |-> 0]

Infinity(sign) == [k |-> "inf", s |-> sign, m |-> << >>, e |-> 0]

Zero(sign) == [k |-> "num", s |-> sign, m |-> << >>, e |-> 0]

IsZero(x) == x.k = "num" /\ x.m = << >>

IsFinite(x) == x.k = "num"

\* The Number nearest to (-1)^sign * (M * 2^E [+ a little, when sticky]),
\* ties to the even significand.
FPack(sign, M, E, sticky) ==
  LET L == BNBitLen(M)
  IN  IF M = << >> THEN Zero(sign)
      ELSE IF L <= MantBits
      THEN [k |-> "num", s |-> sign, m |-> BNShl(M, MantBits - L),
            e |-> E - (MantBits - L)]
      ELSE LET sh     == L - MantBits
               withG  == BNShr(M, sh - 1)
               q      == BNShr(withG, 1)
               guard  == BNIsOdd(withG)
               low    == sticky \/ M # BNShl(withG, sh - 1)
               up     == guard /\ (low \/ BNIsOdd(q))
               q2     == IF up THEN BNAdd(q, <<1>>) ELSE q
           IN  IF BNBitLen(q2) > MantBits
               THEN [k |-> "num", s |-> sign, m |-> BNShr(q2, 1), e |-> E + sh + 1]
               ELSE [k |-> "num", s |-> sign, m |-> q2, e |-> E + sh]

FromInt(n) ==
  IF n < 0 THEN FPack(1, BNFromInt(-n), 0, FALSE)
  ELSE FPack(0, BNFromInt(n), 0, FALSE)

Xor(s, t) == IF s = t THEN 0 ELSE 1

\* a * b
FMul(a, b) ==
  IF a.k = "nan" \/ b.k = "nan" THEN NaN
  ELSE IF a.k = "inf" \/ b.k = "inf"
  THEN (IF IsZero(a) \/ IsZero(b) THEN NaN ELSE Infinity(Xor(a.s, b.s)))
  ELSE IF IsZero(a) \/ IsZero(b) THEN Zero(Xor(a.s, b.s))
  ELSE FPack(Xor(a.s, b.s), BNMul(a.m, b.m), a.e + b.e, FALSE)

\* a + b
FAdd(a, b) ==
  IF a.k = "nan" \/ b.k = "nan" THEN NaN
  ELSE IF a.k = "inf" /\ b.k = "inf"
  THEN (IF a.s = b.s THEN a ELSE NaN)
  ELSE IF a.k = "inf" THEN a
  ELSE IF b.k = "inf" THEN b
  ELSE IF IsZero(a) /\ IsZero(b) THEN Zero(IF a.s = 1 /\ b.s = 1 THEN 1 ELSE 0)
  ELSE IF IsZero(a) THEN b
  ELSE IF IsZero(b) THEN a
  ELSE LET emin == IF a.e <= b.e THEN a.e ELSE b.e
           Ma   == BNShl(a.m, a.e - emin)
           Mb   == BNShl(b.m, b.e - emin)
           c    == BNCmp(Ma, Mb)
       IN  IF a.s = b.s THEN FPack(a.s, BNAdd(Ma, Mb), emin, FALSE)
           ELSE IF c = 0 THEN Zero(0)
           ELSE IF c > 0 THEN FPack(a.s, BNSub(Ma, Mb), emin, FALSE)
           ELSE FPack(b.s, BNSub(Mb, Ma), emin, FALSE)

\* Long division of r / d for r < d: the next `bits` quotient bits after the
\* binary point (as one integer) and the remainder left, <<q, r>>.
RECURSIVE DivBits(_, _, _)
DivBits(r, d, bits) ==
  IF bits = 0 THEN <<0, r>>
  ELSE LET r2   == BNMulSmall(r, 2)
           ge   == BNCmp(r2, d) >= 0
           rest == DivBits(IF ge THEN BNSub(r2, d) ELSE r2, d, bits - 1)
       IN  <<(IF ge THEN Pow2(bits - 1) ELSE 0) + rest[1], rest[2]>>

\* The same, n limbs of quotient bits: <<limbs (least significant first), r>>.
RECURSIVE DivLimbs(_, _, _)
DivLimbs(r, d, n) ==
  IF n = 0 THEN <<<< >>, r>>
  ELSE LET top  == DivBits(r, d, LimbBits)
           rest == DivLimbs(top[2], d, n - 1)
       IN  <<Append(rest[1], top[1]), rest[2]>>

\* Enough quotient limbs for a significand plus a guard bit
DivLimbCount == (MantBits + 1 + LimbBits) \div LimbBits

\* a / b
FDiv(a, b) ==
  IF a.k = "nan" \/ b.k = "nan" THEN NaN
  ELSE IF a.k = "inf"
  THEN (IF b.k = "inf" THEN NaN ELSE Infinity(Xor(a.s, b.s)))
  ELSE IF b.k = "inf" THEN Zero(Xor(a.s, b.s))
  ELSE IF IsZero(b) THEN (IF IsZero(a) THEN NaN ELSE Infinity(Xor(a.s, b.s)))
  ELSE IF IsZero(a) THEN Zero(Xor(a.s, b.s))
  ELSE LET ge == BNCmp(a.m, b.m) >= 0
           r0 == IF ge THEN BNSub(a.m, b.m) ELSE a.m
           qr == DivLimbs(r0, b.m, DivLimbCount)
           q  == BNNorm(Append(qr[1], IF ge THEN 1 ELSE 0))
       IN  FPack(Xor(a.s, b.s), q, a.e - b.e - LimbBits * DivLimbCount,
                 qr[2] # << >>)

\* -1, 0, 1 as |a| < |b|, |a| = |b|, |a| > |b|, for finite a and b
MagCmp(a, b) ==
  IF IsZero(a) THEN (IF IsZero(b) THEN 0 ELSE -1)
  ELSE IF IsZero(b) THEN 1
  ELSE IF a.e < b.e THEN -1
  ELSE IF a.e > b.e THEN 1
  ELSE BNCmp(a.m, b.m)

\* -1, 0, 1 as a < b, a = b, a > b, for a and b other than NaN
FCmp(a, b) ==
  LET sa == IF IsZero(a) THEN 0 ELSE IF a.s = 1 THEN -1 ELSE 1
      sb == IF IsZero(b) THEN 0 ELSE IF b.s = 1 THEN -1 ELSE 1
  IN  IF sa < sb THEN -1
      ELSE IF sa > sb THEN 1
      ELSE IF sa = 0 THEN 0
      ELSE IF a.k = "inf" THEN (IF b.k = "inf" THEN 0 ELSE sa)
      ELSE IF b.k = "inf" THEN -sa
      ELSE sa * MagCmp(a, b)

\* a < b, a <= b, a === b: false when either is NaN
FLt(a, b) == a.k # "nan" /\ b.k # "nan" /\ FCmp(a, b) < 0

FLe(a, b) == a.k # "nan" /\ b.k # "nan" /\ FCmp(a, b) <= 0

FEq(a, b) == a.k # "nan" /\ b.k # "nan" /\ FCmp(a, b) = 0

\* Math.round(x): floor(x + 1/2), computed exactly; -0 for -0.5 <= x <= -0
MathRound(x) ==
  IF x.k # "num" \/ IsZero(x) \/ x.e >= 0 THEN x
  ELSE LET sh   == -x.e
           half == BNShl(<<1>>, sh - 1)
       IN  IF x.s = 0
           THEN FPack(0, BNShr(BNAdd(x.m, half), sh), 0, FALSE)
           ELSE IF BNCmp(x.m, half) <= 0 THEN Zero(1)
           ELSE FPack(1, BNShr(BNAdd(BNSub(x.m, half),
                                     BNSub(BNShl(<<1>>, sh), <<1>>)), sh),
                      0, FALSE)

\* Math.max(a, b): NaN when either is NaN; +0 is larger than -0
MathMax(a, b) ==
  IF a.k = "nan" \/ b.k = "nan" THEN NaN
  ELSE IF FCmp(a, b) > 0 THEN a
  ELSE IF FCmp(a, b) < 0 THEN b
  ELSE IF a.s = 0 THEN a ELSE b

\* The Number a decimal literal n/d denotes: the binary64 nearest to it
Dec(n, d) == FDiv(FromInt(n), FromInt(d))

\* The literals of forecast.ts, written out as binary64 values (a positive
\* significand, as limbs, and an exponent)
Num(limbs, exp) == [k |-> "num", s |-> 0, m |-> limbs, e |-> exp]

One == Num(<<0, 0, 0, 128>>, -52)

Five == Num(<<0, 0, 0, 160>>, -50)

Ten == Num(<<0, 0, 0, 160>>, -49)

Tenth == Num(<<6554, 13107, 26214, 204>>, -56)

TwoTenths == Num(<<6554, 13107, 26214, 204>>, -55)

ThreeTenths == Num(<<13107, 26214, 19660, 153>>, -54)

FifteenHundredths == Num(<<13107, 26214, 19660, 153>>, -55)

NineTenths == Num(<<19661, 6553, 13107, 230>>, -53)

\* Each is the Number nearest to the decimal it stands for
\* The prices seedInitialData gives its products: 2.99, 3.49, 2.49
SeedPrices ==
  <<Num(<<20972, 15728, 11796, 191>>, -51),
    Num(<<20972, 15728, 11796, 223>>, -51),
    Num(<<20972, 15728, 11796, 159>>, -51)>>

LiteralsAreNearest ==
  /\ One = FromInt(1) /\ Five = FromInt(5) /\ Ten = FromInt(10)
  /\ Tenth = Dec(1, 10) /\ TwoTenths = Dec(2, 10) /\ ThreeTenths = Dec(3, 10)
  /\ FifteenHundredths = Dec(15, 100) /\ NineTenths = Dec(9, 10)
  /\ Num(<<6554, 13107, 26214, 140>>, -52) = Dec(11, 10)
  /\ SeedPrices = <<Dec(299, 100), Dec(349, 100), Dec(249, 100)>>

\* A read past the end of an array
Undefined == [k |-> "undefined", s |-> 0, m |-> << >>, e |-> 0]

\* arr[idx] with JavaScript's 0-based index
ArrayGet(arr, idx) == IF idx + 1 \in DOMAIN arr THEN arr[idx + 1] ELSE Undefined

\* ToNumber on an operand of * : undefined becomes NaN
ToNumber(x) == IF x.k = "undefined" THEN NaN ELSE x

\* arr.slice(-n) for 0 < n
SliceLast(arr, n) ==
  IF n >= Len(arr) THEN arr ELSE SubSeq(arr, Len(arr) - n + 1, Len(arr))

(***************************************************************************)
(* The host's clock and calendar.  Instants are milliseconds from the      *)
(* local midnight that starts day 1 of a window of local calendar days.    *)
(* cal describes the host's time zone and where the window lies:           *)
(*   dstDay, shift  the local day that holds a clock change and its size   *)
(*                  in hours: +1 (clocks go forward, a 23-hour day),       *)
(*                  -1 (clocks go back, a 25-hour day); dstDay = 0: none   *)
(*   changeHour     the local wall-clock hour at which the change happens  *)
(*   wd1            the weekday of day 1 (0 = Sunday)                      *)
(*   dom1, monthLen day 1 is the dom1-th of a month of monthLen days       *)
(***************************************************************************)
MsPerHour == 60 * 60 * 1000

MsPerDay == 24 * 60 * 60 * 1000

\* The instant local day d begins
DayStart(c, d) ==
  (d - 1) * MsPerDay
  - (IF c.dstDay # 0 /\ c.dstDay < d THEN c.shift * MsPerHour ELSE 0)

\* The local calendar day an instant falls on
RECURSIVE LocalDayFrom(_, _, _)
LocalDayFrom(c, t, d) ==
  IF t < DayStart(c, d + 1) THEN d ELSE LocalDayFrom(c, t, d + 1)

LocalDay(c, t) == LocalDayFrom(c, t, 1)

\* The wall-clock time of day (ms after 00:00) an instant shows locally
TimeWithinDay(c, t) ==
  LET d       == LocalDay(c, t)
      elapsed == t - DayStart(c, d)
  IN  IF d = c.dstDay /\ elapsed >= c.changeHour * MsPerHour
      THEN elapsed + c.shift * MsPerHour
      ELSE elapsed

\* The instant of wall-clock time w on local day d.  A time the clock change
\* skips is read with the offset before the change; a time it repeats is
\* the first of the two.
MakeDate(c, d, w) ==
  DayStart(c, d) +
    (IF d # c.dstDay THEN w
     ELSE IF c.shift > 0
     THEN (IF w < (c.changeHour + c.shift) * MsPerHour THEN w
           ELSE w - c.shift * MsPerHour)
     ELSE (IF w < c.changeHour * MsPerHour THEN w ELSE w - c.shift * MsPerHour))

\* Date.prototype.getDate: the day of the month, 1..monthLen
getDate(c, t) == ((c.dom1 - 1 + LocalDay(c, t) - 1) % c.monthLen) + 1

\* A faulty weekday: 0 = Monday
MondayFirstDay(c, t) == (c.wd1 + LocalDay(c, t) - 1 + 6) % 7

\* Date.prototype.getDay: the weekday, 0 = Sunday
getDay(c, t) == (c.wd1 + LocalDay(c, t) - 1) % 7

\* Date.prototype.setDate(dt): day dt counted from the first of t's month
\* (running on into the next month), at t's wall-clock time
setDate(c, t, dt) ==
  LET d          == LocalDay(c, t)
      monthFirst == d - getDate(c, t) + 1
  IN  MakeDate(c, monthFirst + dt - 1, TimeWithinDay(c, t))

(***************************************************************************)
(* server/forecast.ts: the pure helpers.                                   *)
(***************************************************************************)
RECURSIVE WeightedSumTo(_, _, _)
WeightedSumTo(values, weights, n) ==
  IF n = 0 THEN Zero(0)
  ELSE FAdd(WeightedSumTo(values, weights, n - 1), FMul(values[n], weights[n]))

RECURSIVE SumTo(_, _)
SumTo(values, n) ==
  IF n = 0 THEN Zero(0) ELSE FAdd(SumTo(values, n - 1), values[n])

\* A faulty truncation: weights.slice(0, data.length), the leading weights
LeadingWeights(weights, n) == SubSeq(weights, 1, n)

\* weights.slice(-data.length): the trailing weights
TruncatedWeights(weights, n) == SliceLast(weights, n)

\* A faulty window: data.slice(0, weights.length), the oldest values
OldestValues(data, w) == SubSeq(data, 1, Len(w))

\* data.slice(-weights.length): the most recent values
valuesForAverage(data, w) == SliceLast(data, Len(w))

\* A faulty baseline: the weighted sum, not divided by the sum of weights
WeightedSumOnly(data, weights) ==
  IF Len(data) = 0 THEN Zero(0)
  ELSE LET w      == IF Len(data) < Len(weights)
                     THEN TruncatedWeights(weights, Len(data))
                     ELSE weights
           values == valuesForAverage(data, w)
       IN  WeightedSumTo(values, w, Len(values))

calculateWeightedMovingAverage(data, weights) ==
  IF Len(data) = 0 THEN Zero(0)
  ELSE LET w == IF Len(data) < Len(weights)
                THEN TruncatedWeights(weights, Len(data))
                ELSE weights
           values      == valuesForAverage(data, w)
           n           == Len(values)
           weightedSum == WeightedSumTo(values, w, n)
           weightSum   == SumTo(w, n)
       IN  FDiv(weightedSum, weightSum)

\* A faulty truncation in place: weights.splice(0, weights.length -
\* data.length), which shortens the array the caller passed
SplicedWeights(weights, data) ==
  IF 0 < Len(data) /\ Len(data) < Len(weights)
  THEN SliceLast(weights, Len(data)) ELSE weights

\* The array passed as weights after calculateWeightedMovingAverage has
\* returned: line 32 binds the parameter to the new array slice returns, and
\* nothing writes an element of the array passed
weightsArgument(weights, data) == weights

\* Default of calculateSeasonality's period parameter
DefaultPeriod == 7

\* A faulty test: one observation short of a period counted as enough
TooShortByOne(data, period) == Len(data) < period - 1

\* data.length < period
TooShort(data, period) == Len(data) < period

\* A faulty bucket: data[i] counted for the period position after its own
ShiftedBucket(idx, period) == (idx + 1) % period

\* const periodIndex = i % period
periodIndex(idx, period) == idx % period

\* seasonalIndices[b] and counts[b] after the loop over the first n values:
\* the sum and the number of the data[i] with i % period = b (i from 0)
RECURSIVE BucketSum(_, _, _, _)
BucketSum(data, period, b, n) ==
  IF n = 0 THEN Zero(0)
  ELSE IF periodIndex(n - 1, period) = b
  THEN FAdd(BucketSum(data, period, b, n - 1), data[n])
  ELSE BucketSum(data, period, b, n - 1)

\* A faulty count: the whole periods of the data, the same for every bucket
WholePeriods(data, period, b) == Len(data) \div period

BucketCount(data, period, b) ==
  Cardinality({j \in 1..Len(data) : periodIndex(j - 1, period) = b})

\* A seasonality that tests the overall average: factors of 1 when it is 0
GuardedSeasonality(data, period) ==
  LET overallAverage == FDiv(SumTo(data, Len(data)), FromInt(Len(data)))
  IN  IF TooShort(data, period) \/ IsZero(overallAverage)
      THEN [b \in 1..period |-> One]
      ELSE [b \in 1..period |->
              FDiv(FDiv(BucketSum(data, period, b - 1, Len(data)),
                        FromInt(BucketCount(data, period, b - 1))),
                   overallAverage)]

calculateSeasonality(data, period) ==
  IF TooShort(data, period) THEN [b \in 1..period |-> One]
  ELSE LET periodAverages ==
             [b \in 1..period |->
                FDiv(BucketSum(data, period, b - 1, Len(data)),
                     FromInt(BucketCount(data, period, b - 1)))]
           overallAverage == FDiv(SumTo(data, Len(data)), FromInt(Len(data)))
       IN  [b \in 1..period |-> FDiv(periodAverages[b], overallAverage)]

\* The fixed weight vector of forecastDemand
WEIGHTS ==
  <<Tenth, Tenth, FifteenHundredths, FifteenHundredths, TwoTenths, ThreeTenths>>

\* The values Math.random() is drawn from: 0, 1/4 and 1 - 2^-53, the least
\* and the greatest Number of [0, 1) and one between
RandomValues ==
  <<Zero(0), Num(<<0, 0, 0, 128>>, -54),
    Num(<<32767, 32767, 32767, 255>>, -53)>>

RandomValuesInRange ==
  /\ RandomValues[2] = Dec(1, 4)
  /\ RandomValues[3] =
       FPack(0, BNSub(BNShl(<<1>>, MantBits), <<1>>), -MantBits, FALSE)
  /\ \A r \in DOMAIN RandomValues :
       FLe(Zero(0), RandomValues[r]) /\ FLt(RandomValues[r], One)

\* A faulty placeholder: Math.random() * 10, between 0 and 10
ScaledPlaceholder(r) == FMul(r, Ten)

\* 5 + Math.random() * 5
placeholderDemand(r) == FAdd(Five, FMul(r, Five))

\* A faulty jitter: 0.9 + Math.random() * 0.3, up to +20%
WideRandomFactor(r) == FAdd(NineTenths, FMul(r, ThreeTenths))

\* 0.9 + Math.random() * 0.2
randomFactor(r) == FAdd(NineTenths, FMul(r, TwoTenths))

\* A faulty clamp: Math.abs(Math.round(x * 10) / 10), the sign dropped
AbsoluteDemand(x) == [FDiv(MathRound(FMul(x, Ten)), Ten) EXCEPT !.s = 0]

\* A faulty rounding: Math.round(x * 10) / 10, negative values kept
UnclampedDemand(x) == FDiv(MathRound(FMul(x, Ten)), Ten)

\* Math.max(0, Math.round(x * 10) / 10)
roundedDemand(x) == MathMax(Zero(0), FDiv(MathRound(FMul(x, Ten)), Ten))

\* A faulty loop condition: i <= daysToForecast
LoopRunsThrough(i, n) == FLe(FromInt(i), n)

\* The loop condition i < daysToForecast
loopContinues(i, n) == FLt(FromInt(i), n)

\* x is a whole number
IsWhole(x) == IsFinite(x) /\ (IsZero(x) \/ x.e >= 0 \/ BNShl(BNShr(x.m, -x.e), -x.e) = x.m)

\* Array(n) creates an array of n empty slots when n is a whole number of
\* 0 .. 2^32 - 1, and throws a RangeError for any other Number
IsArrayLength(n) ==
  /\ IsWhole(n)
  /\ IsZero(n) \/ n.s = 0
  /\ FLt(n, FPack(0, <<1>>, 32, FALSE))

(***************************************************************************)
(* forecastDemand(productId, historicalDemand, daysToForecast) as a step   *)
(* machine.  pc is the place of the one invocation in progress:            *)
(*   "call"         entered, before line 81                                *)
(*   "fallback"     in the map callbacks of the empty-history branch       *)
(*   "baseline"     before the weighted moving average                     *)
(*   "seasonality"  before the seasonal factors                            *)
(*   "loop"         at the loop over the forecast days                     *)
(*   "done"         returned; forecast is the value returned               *)
(*   "threw"        left by an exception                                   *)
(* now and cal are the host's clock and calendar during the invocation (it *)
(* is synchronous and reads the clock within one tick), draws the indices  *)
(* in RandomValues of the values Math.random() has returned to it, and     *)
(* prev the record of the invocation before this one.  weights is the      *)
(* array that line 95 creates, as it is after the statements executed.     *)
(* others holds the frames (arguments, place and locals) of the            *)
(* invocations that are in progress but not running at the moment.         *)
(* storage and route are the server's storage and the request in hand, and *)
(* waiting the route handlers suspended at an await (see the routes).      *)
(***************************************************************************)
VARIABLES historicalDemand, daysToForecast, now, cal, pc, weights,
          baseline, seasonalFactors, startDate, i, forecast, draws, prev,
          others, storage, route, waiting

vars == <<historicalDemand, daysToForecast, now, cal, pc, weights,
          baseline, seasonalFactors, startDate, i, forecast, draws, prev,
          others, storage, route, waiting>>

server == <<storage, route, waiting>>

locals == <<weights, baseline, seasonalFactors, startDate, i, forecast, draws>>

\* Bounds of the inputs explored
MaxHist == 8

MaxShort == 2

MaxDays == 2

MaxFreeDraws == 2

\* The values explored for the next Math.random() of the invocation: each
\* of RandomValues for its first MaxFreeDraws draws (for its first draw
\* alone when several requests are in flight), and after them the value
\* drawn last
Draws ==
  IF Len(draws) < (IF waiting = << >> THEN MaxFreeDraws ELSE 1)
  THEN 1..Len(RandomValues)
  ELSE {draws[Len(draws)]}

\* The horizons explored: daysToForecast is a Number, whole or not
Horizons == {FromInt(n) : n \in 1..MaxDays}

HalfHorizons == {Dec(2 * n - 1, 2) : n \in 1..MaxDays}

SeqsUpTo(S, n) == UNION {[1..k -> S] : k \in 0..n}

BinaryValues == {0, 8}

DemandChoices == {0, 4, 8, 10}

\* demand is a plain number: a return, a correction, can make it negative
SignedValues == {-8, -4, 0, 8}

\* The demand sequences explored.  Shorter than the period: every sequence
\* of BinaryValues, every sequence of DemandChoices up to MaxShort long and
\* of SignedValues up to 2 long, the constant sequences of DemandChoices.
\* From the period up to MaxHist long: the constant sequences of
\* DemandChoices, the sequences of one value of BinaryValues with a value of
\* SignedValues at a single place,
\* and a sequence that is not all zero but sums to zero.
ValueHistories ==
  SeqsUpTo(BinaryValues, DefaultPeriod - 1)
    \cup SeqsUpTo(DemandChoices, MaxShort)
    \cup SeqsUpTo(SignedValues, 2)
    \cup {[j \in 1..k |-> c] : c \in DemandChoices, k \in 1..MaxHist}
    \cup {[j \in 1..k |-> IF j = p THEN a ELSE b] :
            a \in SignedValues, b \in BinaryValues, p \in 1..MaxHist,
            k \in DefaultPeriod..MaxHist}
    \cup {[j \in 1..k |-> IF j = 1 THEN -8 ELSE IF j = 2 THEN 8 ELSE 0] :
            k \in DefaultPeriod..MaxHist}

HorizonHistories ==
  {<< >>, <<-4>>, <<-4, 8>>, [j \in 1..DefaultPeriod |-> IF j = 1 THEN -4 ELSE 8]}

\* The observations with these demands, one a day, the last one yesterday
History(vals) ==
  [j \in 1..Len(vals) |->
     [date |-> (j - Len(vals) - 1) * MsPerDay, demand |-> vals[j]]]

\* A host on a zone without clock changes; day 1 is a Sunday, the 15th
PlainCal ==
  [dstDay |-> 0, shift |-> 0, changeHour |-> 2, wd1 |-> 0, dom1 |-> 15,
   monthLen |-> 31]

\* Hosts whose zone changes its clock on day 1 or 2 of the window, or not at
\* all, with day 1 the 15th or the last day of a month
Calendars ==
  {[PlainCal EXCEPT !.dstDay = d, !.shift = sh, !.dom1 = dm] :
     d \in 1..2, sh \in {-1, 1}, dm \in {15, 31}}
  \cup {[PlainCal EXCEPT !.dom1 = dm] : dm \in {15, 31}}

\* Clock readings on day 1: midnight, inside the hour a change skips, noon,
\* the last hour of an ordinary day
ClockHours == {0, 2, 12, 23}

Noon == 12 * MsPerHour

NoCall == [called |-> FALSE]

\* A MemStorage that holds nothing: every Map is a sequence in the order of
\* its keys, which are the ids 1, 2, ... the counters hand out
EmptyStorage ==
  [products |-> << >>, suppliers |-> << >>, transactions |-> << >>,
   purchaseOrders |-> << >>, purchaseOrderItems |-> << >>,
   forecastData |-> << >>]

\* No request of the server in progress or answered
NoRequest ==
  [state |-> "idle", productId |-> 0, status |-> 0, body |-> << >>,
   error |-> "", message |-> << >>, requests |-> 0]

\* forecastDemand invoked on its own, without the server around it
Standalone ==
  /\ storage = EmptyStorage
  /\ route = NoRequest
  /\ waiting = << >>

InitLocals ==
  /\ weights = << >>
  /\ baseline = Zero(0)
  /\ seasonalFactors = << >>
  /\ startDate = 0
  /\ i = 0
  /\ forecast = << >>
  /\ draws = << >>

\* Any history and a horizon of one day, on a plain host at noon
InitValues ==
  /\ historicalDemand \in {History(v) : v \in ValueHistories}
  /\ daysToForecast = One
  /\ now = Noon
  /\ cal = PlainCal

\* Histories shorter than the weight vector, shorter than the period and a
\* period long, with any horizon
SeveralDayHistories ==
  {<<4, 8>>, <<10, 10, 10, 10, 10, 10>>, [j \in 1..DefaultPeriod |-> 0],
   [j \in 1..DefaultPeriod |-> IF j = 1 THEN -4 ELSE 8]}

InitSeveralDays ==
  /\ historicalDemand \in {History(v) : v \in SeveralDayHistories}
  /\ daysToForecast \in Horizons
  /\ now = Noon
  /\ cal = PlainCal

\* An empty and a non-empty history, on any host at any clock reading
InitDates ==
  /\ historicalDemand \in {History(<< >>), History(<<8>>)}
  /\ daysToForecast \in Horizons
  /\ now \in {h * MsPerHour : h \in ClockHours}
  /\ cal \in Calendars

\* Horizons that are not whole, with an empty history and with histories
\* that hold a negative demand
InitHorizons ==
  /\ historicalDemand \in {History(v) : v \in HorizonHistories}
  /\ daysToForecast \in HalfHorizons
  /\ now = Noon
  /\ cal = PlainCal

Init ==
  /\ InitValues \/ InitSeveralDays \/ InitDates \/ InitHorizons
  /\ pc = "call"
  /\ prev = NoCall
  /\ others = << >>
  /\ Standalone
  /\ InitLocals

\* const demandValues = historicalDemand.map(data => data.demand)
demandValues ==
  [j \in 1..Len(historicalDemand) |-> FromInt(historicalDemand[j].demand)]

\* A faulty result array: one array kept from invocation to invocation
KeptForecastArray == forecast

\* const forecast: DemandForecast[] = []
NewForecastArray == << >>

\* Lines 81-85: the demand values, the branch on an empty history and,
\* there, Array(daysToForecast)
Enter ==
  /\ pc = "call"
  /\ IF Len(demandValues) = 0
     THEN /\ pc' = IF ~IsArrayLength(daysToForecast) THEN "threw"
                   ELSE IF FLt(Zero(0), daysToForecast) THEN "fallback"
                   ELSE "done"
          /\ forecast' = << >>
     ELSE /\ pc' = "baseline"
          /\ UNCHANGED forecast
  /\ draws' = << >>
  /\ UNCHANGED server
  /\ UNCHANGED <<historicalDemand, daysToForecast, now, cal, weights,
                 baseline, seasonalFactors, startDate, i, prev, others>>

\* Lines 85-90: one callback of Array(daysToForecast).fill(0).map, for the
\* next index; after the last one the array is returned
Fallback ==
  /\ pc = "fallback"
  /\ FLt(FromInt(Len(forecast)), daysToForecast)
  /\ \E r \in Draws :
       /\ forecast' = Append(forecast,
            [date   |-> now + Len(forecast) * 24 * 60 * 60 * 1000,
             demand |-> placeholderDemand(RandomValues[r])])
       /\ draws' = Append(draws, r)
  /\ pc' = IF FLt(FromInt(Len(forecast')), daysToForecast)
           THEN "fallback" ELSE "done"
  /\ UNCHANGED server
  /\ UNCHANGED <<historicalDemand, daysToForecast, now, cal, weights,
                 baseline, seasonalFactors, startDate, i, prev, others>>

\* Lines 95-99: the weights array is created and passed to the average,
\* which leaves it as weightsArgument says
CalcBaseline ==
  /\ pc = "baseline"
  /\ baseline' = calculateWeightedMovingAverage(demandValues, WEIGHTS)
  /\ weights' = weightsArgument(WEIGHTS, demandValues)
  /\ pc' = "seasonality"
  /\ UNCHANGED server
  /\ UNCHANGED <<historicalDemand, daysToForecast, now, cal,
                 seasonalFactors, startDate, i, forecast, draws, prev, others>>

\* Lines 102-108: the seasonal factors, the empty result, the start date and
\* the first test of the loop condition
CalcSeasonality ==
  /\ pc = "seasonality"
  /\ seasonalFactors' = calculateSeasonality(demandValues, DefaultPeriod)
  /\ forecast' = NewForecastArray
  /\ startDate' = now
  /\ i' = 0
  /\ pc' = IF loopContinues(0, daysToForecast) THEN "loop" ELSE "done"
  /\ UNCHANGED server
  /\ UNCHANGED <<historicalDemand, daysToForecast, now, cal, weights,
                 baseline, draws, prev, others>>

\* Lines 109-129: one iteration of the loop, i++ and the next test of the
\* loop condition; when it fails, line 131 returns forecast
LoopStep ==
  /\ pc = "loop"
  /\ \E r \in Draws :
       LET forecastDate == setDate(cal, startDate, getDate(cal, startDate) + i)
           dayOfWeek    == getDay(cal, forecastDate)
           seasonal     == FMul(baseline,
                                ToNumber(ArrayGet(seasonalFactors, dayOfWeek)))
           jittered     == FMul(seasonal, randomFactor(RandomValues[r]))
       IN  /\ forecast' = Append(forecast,
                 [date |-> forecastDate, demand |-> roundedDemand(jittered)])
           /\ draws' = Append(draws, r)
  /\ i' = i + 1
  /\ pc' = IF loopContinues(i', daysToForecast) THEN "loop" ELSE "done"
  /\ UNCHANGED server
  /\ UNCHANGED <<historicalDemand, daysToForecast, now, cal, weights,
                 baseline, seasonalFactors, startDate, prev, others>>

Next == Enter \/ Fallback \/ CalcBaseline \/ CalcSeasonality \/ LoopStep

Spec == Init /\ [][Next]_vars

(***************************************************************************)
(* A second invocation with the same arguments, for the properties that    *)
(* compare two invocations: Again records the invocation that has returned *)
(* in prev and enters forecastDemand once more, the host's clock either    *)
(* frozen or a day further on.  The locals keep whatever the returned      *)
(* invocation left: the new one initialises them itself.                   *)
(***************************************************************************)
RepeatHistories ==
  {<< >>, <<4, 8>>, [j \in 1..DefaultPeriod |-> IF j = 1 THEN 8 ELSE 4]}

InitRepeat ==
  /\ historicalDemand \in {History(v) : v \in RepeatHistories}
  /\ daysToForecast \in Horizons
  /\ now = Noon
  /\ cal = PlainCal
  /\ pc = "call"
  /\ prev = NoCall
  /\ others = << >>
  /\ Standalone
  /\ InitLocals

Again ==
  /\ pc = "done"
  /\ prev = NoCall
  /\ prev' = [called |-> TRUE, historicalDemand |-> historicalDemand,
              daysToForecast |-> daysToForecast, now |-> now, cal |-> cal,
              draws |-> draws, result |-> forecast]
  /\ now' \in {now, now + MsPerDay}
  /\ pc' = "call"
  /\ UNCHANGED server
  /\ UNCHANGED <<historicalDemand, daysToForecast, cal, locals, others>>

NextRepeat == Next \/ Again

SpecRepeat == InitRepeat /\ [][NextRepeat]_vars

(***************************************************************************)
(* Several invocations in progress at once, their steps interleaved.  The  *)
(* arguments, the place and the locals of an invocation make up its frame; *)
(* Switch suspends the running invocation where it is and resumes another, *)
(* so that any interleaving of the steps of the invocations is a behaviour.*)
(***************************************************************************)
Frame ==
  [historicalDemand |-> historicalDemand, daysToForecast |-> daysToForecast,
   pc |-> pc, weights |-> weights, baseline |-> baseline,
   seasonalFactors |-> seasonalFactors, startDate |-> startDate, i |-> i,
   forecast |-> forecast, draws |-> draws]

\* The frame of an invocation just entered
EnteredFrame(h, n) ==
  [historicalDemand |-> h, daysToForecast |-> n, pc |-> "call",
   weights |-> << >>, baseline |-> Zero(0), seasonalFactors |-> << >>,
   startDate |-> 0, i |-> 0, forecast |-> << >>, draws |-> << >>]

\* A faulty result array: one array at module level, which every
\* invocation pushes to
ModuleForecast(f) == forecast

\* const forecast (line 105), like the array of line 85, is created by the
\* invocation: the invocation resumed finds the array it created
ownForecast(f) == f.forecast

ConcurrentHistories ==
  {<< >>, <<4, 8>>, [j \in 1..DefaultPeriod |-> IF j = 1 THEN 8 ELSE 4]}

ConcurrentHorizons == {FromInt(1), FromInt(2)}

\* Two invocations of any history and horizon, or three of one day each
InitConcurrent ==
  /\ historicalDemand \in {History(v) : v \in ConcurrentHistories}
  /\ now = Noon
  /\ cal = PlainCal
  /\ pc = "call"
  /\ prev = NoCall
  /\ Standalone
  /\ InitLocals
  /\ \/ /\ daysToForecast \in ConcurrentHorizons
        /\ others \in {<<EnteredFrame(History(v), n)>> :
                          v \in ConcurrentHistories, n \in ConcurrentHorizons}
     \/ /\ daysToForecast = One
        /\ others \in {<<EnteredFrame(History(v), One), EnteredFrame(History(w), One)>> :
                          v \in ConcurrentHistories, w \in ConcurrentHistories}

Switch ==
  \E p \in DOMAIN others :
    LET f == others[p]
    IN  /\ f # Frame
        /\ others' = [others EXCEPT ![p] = Frame]
        /\ historicalDemand' = f.historicalDemand
        /\ daysToForecast' = f.daysToForecast
        /\ pc' = f.pc
        /\ weights' = f.weights
        /\ baseline' = f.baseline
        /\ seasonalFactors' = f.seasonalFactors
        /\ startDate' = f.startDate
        /\ i' = f.i
        /\ forecast' = ownForecast(f)
        /\ draws' = f.draws
        /\ UNCHANGED <<now, cal, prev, storage, route, waiting>>

NextConcurrent == Next \/ Switch

SpecConcurrent == InitConcurrent /\ [][NextConcurrent]_vars

(***************************************************************************)
(* Forecasts of more than a week, from histories whose observations are    *)
(* dated in several ways, on hosts whose today is any day of the week.     *)
(***************************************************************************)
\* An empty history, one shorter than the period, and two of a period with
\* seven different bucket means
WeekHistories ==
  {<< >>, <<4, 8>>, <<1, 2, 3, 4, 5, 6, 7>>, <<8, 4, 0, 4, 8, 4, 10>>}

\* The date of observation j of n: one a day up to yesterday, one an hour
\* (all of yesterday, one weekday), or one a day with the newest first
ObservationDatings == {"daily", "hourly", "newestFirst"}

DatedHistory(vals, dating) ==
  [j \in 1..Len(vals) |->
     [date   |-> IF dating = "daily" THEN (j - Len(vals) - 1) * MsPerDay
                 ELSE IF dating = "hourly" THEN j * MsPerHour - MsPerDay
                 ELSE (0 - j) * MsPerDay,
      demand |-> vals[j]]]

WeekHorizons == {FromInt(1), FromInt(8)}

InitWeek ==
  /\ historicalDemand \in
       {DatedHistory(v, d) : v \in WeekHistories, d \in ObservationDatings}
  /\ daysToForecast \in WeekHorizons
  /\ now = Noon
  /\ cal \in {[PlainCal EXCEPT !.wd1 = wd, !.dom1 = 28] : wd \in 0..6}
  /\ pc = "call"
  /\ prev = NoCall
  /\ others = << >>
  /\ Standalone
  /\ InitLocals

SpecWeek == InitWeek /\ [][Next]_vars

(***************************************************************************)
(* server/storage.ts: MemStorage.  A storage value st holds the Maps as    *)
(* sequences (no entry is ever deleted, and Map.set of a key that exists   *)
(* keeps its place), with the fields of the entities that the routes       *)
(* modelled here read or write.  A supplierId of 0 stands for null, and    *)
(* Undefined for a field that is absent.  The storage methods do no I/O:   *)
(* the promise each returns is already settled, so a handler runs to its   *)
(* response in one turn of the event loop.                                 *)
(***************************************************************************)
\* The order Array.prototype.sort gives to entries of the given keys with
\* (a, b) => key(a) - key(b): the places of the entries, by ascending key,
\* entries of equal keys in the order they had (the sort is stable)
ascendingOrder(keys) ==
  LET n       == Len(keys)
      rank(j) == Cardinality({q \in 1..n : \/ keys[q] < keys[j]
                                           \/ /\ keys[q] = keys[j]
                                              /\ q < j}) + 1
  IN  [r \in 1..n |-> CHOOSE j \in 1..n : rank(j) = r]

\* The same with (a, b) => key(b) - key(a): by descending key
descendingOrder(keys) ==
  LET n       == Len(keys)
      rank(j) == Cardinality({q \in 1..n : \/ keys[q] > keys[j]
                                           \/ /\ keys[q] = keys[j]
                                              /\ q < j}) + 1
  IN  [r \in 1..n |-> CHOOSE j \in 1..n : rank(j) = r]

\* this.products.get(id) and this.suppliers.get(id) return an entry
hasProduct(st, id) == id \in 1..Len(st.products)

hasSupplier(st, id) == id \in 1..Len(st.suppliers)

createSupplier(st, leadTime) ==
  [st EXCEPT !.suppliers =
     Append(@, [id |-> Len(@) + 1, leadTime |-> leadTime])]

createProduct(st, insertProduct) ==
  [st EXCEPT !.products =
     Append(@, [insertProduct EXCEPT !.id = Len(st.products) + 1])]

\* updateProduct(id, productData) for the fields of productData given
updateProduct(st, id, productData) ==
  IF ~hasProduct(st, id) THEN st
  ELSE [st EXCEPT !.products[id] =
          [f \in DOMAIN @ |->
             IF f \in DOMAIN productData THEN productData[f] ELSE @[f]]]

\* A faulty low-stock test: stock at the reorder point is not low
StrictlyLowStock(product) ==
  product.isActive /\ product.currentStock < product.reorderPoint

isLowStock(product) ==
  product.isActive /\ product.currentStock <= product.reorderPoint

getProductsWithLowStock(st) == SelectSeq(st.products, isLowStock)

\* The stock a transaction leaves: the switch of createTransaction
newStock(currentStock, transactionType, quantity) ==
  CASE transactionType = "receive"    -> currentStock + quantity
    [] transactionType = "sale"       -> currentStock - quantity
    [] transactionType = "adjustment" -> currentStock + quantity
    [] transactionType = "count"      -> quantity
    [] OTHER                          -> currentStock

\* createTransaction(insertTransaction) at the instant t
createTransaction(st, insertTransaction, t) ==
  LET transaction == [id              |-> Len(st.transactions) + 1,
                      productId       |-> insertTransaction.productId,
                      quantity        |-> insertTransaction.quantity,
                      transactionType |-> insertTransaction.transactionType,
                      transactionDate |-> t]
      added == [st EXCEPT !.transactions = Append(@, transaction)]
  IN  IF ~hasProduct(st, transaction.productId) THEN added
      ELSE [added EXCEPT !.products[transaction.productId].currentStock =
              newStock(@, transaction.transactionType, transaction.quantity)]

transactionTime(t) == t.transactionDate

\* transactions.sort((a, b) => time of b - time of a)
newestFirst(rows) ==
  LET order == descendingOrder([j \in 1..Len(rows) |-> transactionTime(rows[j])])
  IN  [r \in 1..Len(rows) |-> rows[order[r]]]

\* listTransactions(productId), productId being a number other than 0
listTransactions(st, productId) ==
  LET ofProduct(t) == t.productId = productId
  IN  newestFirst(SelectSeq(st.transactions, ofProduct))

createPurchaseOrder(st, insertOrder, t) ==
  [st EXCEPT !.purchaseOrders =
     Append(@, [id          |-> Len(@) + 1,
                supplierId  |-> insertOrder.supplierId,
                status      |-> insertOrder.status,
                isAutomated |-> insertOrder.isAutomated,
                totalValue  |-> Undefined,
                orderDate   |-> t])]

\* order.totalValue || 0
valueOrZero(x) ==
  IF x.k \in {"undefined", "nan"} \/ IsZero(x) THEN Zero(0) ELSE x

createPurchaseOrderItem(st, insertItem) ==
  LET item  == [id              |-> Len(st.purchaseOrderItems) + 1,
                purchaseOrderId |-> insertItem.purchaseOrderId,
                productId       |-> insertItem.productId,
                quantity        |-> insertItem.quantity,
                totalPrice      |-> insertItem.totalPrice]
      added == [st EXCEPT !.purchaseOrderItems = Append(@, item)]
  IN  IF item.purchaseOrderId \notin 1..Len(st.purchaseOrders) THEN added
      ELSE [added EXCEPT !.purchaseOrders[item.purchaseOrderId].totalValue =
              FAdd(valueOrZero(@), ToNumber(item.totalPrice))]

\* listPurchaseOrderItems(purchaseOrderId): the items in the Map's order
listPurchaseOrderItems(st, purchaseOrderId) ==
  LET ofOrder(item) == item.purchaseOrderId = purchaseOrderId
  IN  SelectSeq(st.purchaseOrderItems, ofOrder)

RECURSIVE receiveItems(_, _, _, _)
\* The loop of updatePurchaseOrderStatus over the items of a completed
\* order: a 'receive' transaction for each item whose product exists
receiveItems(st, items, t, j) ==
  IF j > Len(items) THEN st
  ELSE IF ~hasProduct(st, items[j].productId)
  THEN receiveItems(st, items, t, j + 1)
  ELSE receiveItems(createTransaction(st,
                      [productId       |-> items[j].productId,
                       quantity        |-> items[j].quantity,
                       transactionType |-> "receive"], t),
                    items, t, j + 1)

\* updatePurchaseOrderStatus(id, status) at the instant t
updatePurchaseOrderStatus(st, id, status, t) ==
  IF id \notin 1..Len(st.purchaseOrders) THEN st
  ELSE LET updated == [st EXCEPT !.purchaseOrders[id].status = status]
       IN  IF status = "completed"
           THEN receiveItems(updated, listPurchaseOrderItems(updated, id), t, 1)
           ELSE updated

createForecastData(st, insertForecast) ==
  [st EXCEPT !.forecastData =
     Append(@, [id               |-> Len(@) + 1,
                productId        |-> insertForecast.productId,
                date             |-> insertForecast.date,
                forecastedDemand |-> insertForecast.forecastedDemand])]

rowTime(row) == row.date

\* A faulty selection: the rows of every product
AllForecastRows(rows, productId) == rows

rowsOfProduct(rows, productId) ==
  LET ofProduct(row) == row.productId = productId
  IN  SelectSeq(rows, ofProduct)

getProductForecast(st, productId) ==
  LET rows  == rowsOfProduct(st.forecastData, productId)
      order == ascendingOrder([j \in 1..Len(rows) |-> rowTime(rows[j])])
  IN  [r \in 1..Len(rows) |-> rows[order[r]]]

\* seedInitialData() of a storage constructed at the instant t0: three
\* suppliers, three products, three purchase orders of one item each, a
\* receipt and a sale of each product,
\* and SeedDays forecast rows of each product; the r-th Math.random() of the
\* seeding returns RandomValues[SeedDraw(r)], and no clock change falls in
\* the seeded week
SeedDays == 7

SeedDraw(r) == (r % Len(RandomValues)) + 1

seedProduct(supplierId, price, stock, maxStock, reorderPoint, quantity) ==
  [id |-> 0, supplierId |-> supplierId, price |-> price,
   currentStock |-> stock, maxStockLevel |-> maxStock,
   reorderPoint |-> reorderPoint, reorderQuantity |-> quantity,
   isActive |-> TRUE]

seedOrder(supplierId, status, isAutomated) ==
  [supplierId |-> supplierId, status |-> status, isAutomated |-> isAutomated]

seedItem(st, purchaseOrderId, productId, quantity) ==
  [purchaseOrderId |-> purchaseOrderId, productId |-> productId,
   quantity |-> quantity,
   totalPrice |-> FMul(FromInt(quantity), st.products[productId].price)]

movement(productId, quantity, transactionType) ==
  [productId |-> productId, quantity |-> quantity,
   transactionType |-> transactionType]

\* The rows of the seeding loop: createForecastData for each of the three
\* products on each of the SeedDays days, r counting the calls from 0
seedForecast(st, t0) ==
  LET base   == <<5, 7, 4>>
      span   == <<3, 4, 2>>
      row(r) == [id               |-> Len(st.forecastData) + r + 1,
                 productId        |-> (r % 3) + 1,
                 date             |-> t0 + (r \div 3) * MsPerDay,
                 forecastedDemand |->
                   FAdd(FromInt(base[(r % 3) + 1]),
                        FMul(RandomValues[SeedDraw(r)],
                             FromInt(span[(r % 3) + 1])))]
  IN  [st EXCEPT !.forecastData =
         @ \o [q \in 1..(3 * SeedDays) |-> row(q - 1)]]

seedInitialData(t0) ==
  LET s1 == createSupplier(createSupplier(createSupplier(EmptyStorage, 2), 3), 1)
      s2 == createProduct(createProduct(createProduct(s1,
              seedProduct(1, SeedPrices[1], 12, 100, 20, 50)),
              seedProduct(2, SeedPrices[2], 15, 100, 25, 40)),
              seedProduct(3, SeedPrices[3], 8, 50, 20, 30))
      s3 == createPurchaseOrder(createPurchaseOrder(createPurchaseOrder(s2,
              seedOrder(1, "completed", FALSE), t0),
              seedOrder(2, "in_progress", FALSE), t0),
              seedOrder(3, "pending", TRUE), t0)
      s4 == createPurchaseOrderItem(createPurchaseOrderItem(
              createPurchaseOrderItem(s3,
                seedItem(s3, 1, 1, 50)),
                seedItem(s3, 2, 2, 40)),
                seedItem(s3, 3, 3, 30))
      s5 == createTransaction(createTransaction(createTransaction(s4,
              movement(1, 50, "receive"), t0),
              movement(1, 38, "sale"), t0),
              movement(2, 50, "receive"), t0)
      s6 == createTransaction(createTransaction(createTransaction(s5,
              movement(2, 35, "sale"), t0),
              movement(3, 30, "receive"), t0),
              movement(3, 22, "sale"), t0)
  IN  seedForecast(s6, t0)

(***************************************************************************)
(* The routes of the server (routes.ts).  route is the request in hand:    *)
(*   state      "idle" (none yet), "forecasting" (the forecast route has   *)
(*              invoked forecastDemand, which steps as above) or           *)
(*              "responded"                                                *)
(*   productId  the :productId of a forecast request                       *)
(*   status     the HTTP status of the response                            *)
(*   body       the value handed to res.json: the rows or points of a      *)
(*              forecast response, the orders of a replenishment response  *)
(*   error      the error string of a failure response                     *)
(*   message    the pieces of the message template of a replenishment      *)
(*              response, in order                                         *)
(*   requests   the number of requests received                            *)
(***************************************************************************)
DefaultDays == 7

MaxRequests == 2

respond(status, body, error, message) ==
  [route EXCEPT !.state = "responded", !.status = status, !.body = body,
                !.error = error, !.message = message]

\* A faulty mapping: the filter on the transaction type left out
AnyTypeObservations(transactions) ==
  [j \in 1..Len(transactions) |->
     [date |-> transactions[j].transactionDate,
      demand |-> transactions[j].quantity]]

\* transactions.filter(t => t.transactionType === "sale")
\*             .map(t => ({ date: t.transactionDate, demand: t.quantity }))
saleObservations(transactions) ==
  LET isSale(t) == t.transactionType = "sale"
      sales     == SelectSeq(transactions, isSale)
  IN  [j \in 1..Len(sales) |->
         [date |-> sales[j].transactionDate, demand |-> sales[j].quantity]]

RECURSIVE saveForecast(_, _, _, _)
\* for (const day of forecast) await storage.createForecastData(...)
saveForecast(st, productId, days, j) ==
  IF j > Len(days) THEN st
  ELSE saveForecast(
         createForecastData(st, [productId        |-> productId,
                                 date             |-> days[j].date,
                                 forecastedDemand |-> days[j].demand]),
         productId, days, j + 1)

\* GET /api/forecast/:productId, from the request to the response or to the
\* invocation of forecastDemand(productId, historicalDemand)
GetForecast(productId) ==
  /\ route.state \in {"idle", "responded"}
  /\ route.requests < MaxRequests
  /\ LET request  == [route EXCEPT !.productId = productId,
                                   !.requests = @ + 1]
         existing == getProductForecast(storage, productId)
     IN  IF ~hasProduct(storage, productId)
         THEN /\ route' = [request EXCEPT !.state = "responded",
                             !.status = 404, !.body = << >>,
                             !.error = "Product not found", !.message = << >>]
              /\ UNCHANGED <<historicalDemand, daysToForecast, pc>>
         ELSE IF Len(existing) > 0
         THEN /\ route' = [request EXCEPT !.state = "responded",
                             !.status = 200, !.body = existing,
                             !.error = "", !.message = << >>]
              /\ UNCHANGED <<historicalDemand, daysToForecast, pc>>
         ELSE /\ route' = [request EXCEPT !.state = "forecasting"]
              /\ historicalDemand' =
                   saleObservations(listTransactions(storage, productId))
              /\ daysToForecast' = FromInt(DefaultDays)
              /\ pc' = "call"
  /\ UNCHANGED <<storage, now, cal, locals, prev, others, waiting>>

\* The rest of the handler once forecastDemand has returned or thrown: the
\* rows saved and the forecast sent, or the catch clause
SaveForecast ==
  /\ route.state = "forecasting"
  /\ pc \in {"done", "threw"}
  /\ IF pc = "done"
     THEN /\ storage' = saveForecast(storage, route.productId, forecast, 1)
          /\ route' = respond(200, forecast, "", << >>)
     ELSE /\ route' = respond(500, << >>, "Failed to generate forecast", << >>)
          /\ UNCHANGED storage
  /\ UNCHANGED <<historicalDemand, daysToForecast, now, cal, pc, locals,
                 prev, others, waiting>>

\* The storages explored by the forecast route: the seeded one, a product
\* added to it (POST /api/products, completed by PUT /api/products/:id) and
\* then a ledger of transactions posted one by one (POST /api/transactions),
\* either a day apart or all within one millisecond
SeedTime == (0 - 10) * MsPerDay

AddedProduct == 4

RequestedProducts == {1, AddedProduct, 5}

RouteEntries ==
  {movement(AddedProduct, 4, "sale"), movement(AddedProduct, 8, "sale"),
   movement(AddedProduct, 4, "receive"), movement(1, 8, "sale"),
   movement(AddedProduct, 8, "adjustment")}

WeekOfSales == <<8, 4, 0, 4, 8, 4, 10>>

RouteLedgers ==
  SeqsUpTo(RouteEntries, 2)
  \cup {[j \in 1..DefaultPeriod |->
           movement(AddedProduct, WeekOfSales[j], "sale")]}

LedgerDatings == {"daily", "sameInstant"}

postingTime(dating, j, n) ==
  IF dating = "daily" THEN (j - n) * MsPerDay ELSE 0

RECURSIVE postAll(_, _, _, _)
postAll(st, entries, dating, j) ==
  IF j > Len(entries) THEN st
  ELSE postAll(createTransaction(st, entries[j],
                                 postingTime(dating, j, Len(entries))),
               entries, dating, j + 1)

RouteStorages ==
  LET seeded == createProduct(seedInitialData(SeedTime),
                              seedProduct(0, One, 0, 0, 0, 0))
  IN  {postAll(seeded, l, d, 1) : l \in RouteLedgers, d \in LedgerDatings}

InitServer ==
  /\ route = NoRequest
  /\ waiting = << >>
  /\ pc = "idle"
  /\ historicalDemand = << >>
  /\ daysToForecast = FromInt(DefaultDays)
  /\ now = Noon
  /\ cal = PlainCal
  /\ prev = NoCall
  /\ others = << >>
  /\ InitLocals

InitRoute ==
  /\ storage \in RouteStorages
  /\ InitServer

NextRoute ==
  \/ \E productId \in RequestedProducts : GetForecast(productId)
  \/ Next
  \/ SaveForecast

SpecRoute == InitRoute /\ [][NextRoute]_vars

(***************************************************************************)
(* The forecast route with several requests in flight.  The handler is an  *)
(* async function: it runs until an await, where it is suspended and any   *)
(* other handler may run.  A storage method reads or writes the storage    *)
(* when it is called, before the await on its promise; forecastDemand is   *)
(* synchronous, so no handler runs between its steps.  waiting holds the   *)
(* handlers, each with its place (state), the values it has read and the   *)
(* forecast it computed (points):                                          *)
(*   "received"     before the call of getProduct                          *)
(*   "found"        suspended on getProduct                                *)
(*   "checked"      suspended on getProductForecast                        *)
(*   "listed"       suspended on listTransactions                          *)
(*   "forecasting"  in forecastDemand (route and the engine's variables    *)
(*                  are its)                                               *)
(*   "saving"       suspended on a createForecastData, saved rows written  *)
(*   "responded"    the response is sent                                   *)
(***************************************************************************)
Handler(productId) ==
  [state |-> "received", productId |-> productId, found |-> FALSE,
   existing |-> << >>, transactions |-> << >>, points |-> << >>,
   saved |-> 0, status |-> 0, body |-> << >>, error |-> ""]

Running == \E h \in 1..Len(waiting) : waiting[h].state = "forecasting"

forecastRowOf(productId, day) ==
  [productId |-> productId, date |-> day.date,
   forecastedDemand |-> day.demand]

\* const product = await storage.getProduct(productId)
AwaitProduct(h) ==
  /\ ~Running
  /\ waiting[h].state = "received"
  /\ waiting' = [waiting EXCEPT
                   ![h].state = "found",
                   ![h].found = hasProduct(storage, waiting[h].productId)]
  /\ UNCHANGED <<storage, route, historicalDemand, daysToForecast, now, cal,
                 pc, locals, prev, others>>

\* if (!product) return res.status(404)...;
\* const existingForecast = await storage.getProductForecast(productId)
AwaitExisting(h) ==
  /\ ~Running
  /\ waiting[h].state = "found"
  /\ waiting' =
       IF ~waiting[h].found
       THEN [waiting EXCEPT ![h].state = "responded", ![h].status = 404,
                            ![h].error = "Product not found"]
       ELSE [waiting EXCEPT
               ![h].state = "checked",
               ![h].existing =
                 getProductForecast(storage, waiting[h].productId)]
  /\ UNCHANGED <<storage, route, historicalDemand, daysToForecast, now, cal,
                 pc, locals, prev, others>>

\* if (existingForecast.length > 0) res.json(existingForecast); else
\* const transactions = await storage.listTransactions(productId)
AwaitTransactions(h) ==
  /\ ~Running
  /\ waiting[h].state = "checked"
  /\ waiting' =
       IF Len(waiting[h].existing) > 0
       THEN [waiting EXCEPT ![h].state = "responded", ![h].status = 200,
                            ![h].body = waiting[h].existing]
       ELSE [waiting EXCEPT
               ![h].state = "listed",
               ![h].transactions =
                 listTransactions(storage, waiting[h].productId)]
  /\ UNCHANGED <<storage, route, historicalDemand, daysToForecast, now, cal,
                 pc, locals, prev, others>>

\* The filter, the map and the call forecastDemand(productId,
\* historicalDemand)
InvokeForecast(h) ==
  /\ ~Running
  /\ waiting[h].state = "listed"
  /\ waiting' = [waiting EXCEPT ![h].state = "forecasting"]
  /\ route' = [NoRequest EXCEPT !.state = "forecasting",
                                !.productId = waiting[h].productId]
  /\ historicalDemand' = saleObservations(waiting[h].transactions)
  /\ daysToForecast' = FromInt(DefaultDays)
  /\ pc' = "call"
  /\ UNCHANGED <<storage, now, cal, locals, prev, others>>

\* forecastDemand has returned or thrown: the first turn of the saving loop
\* up to its await, the response for an empty forecast, or the catch clause
AwaitFirstSave ==
  /\ pc \in {"done", "threw"}
  /\ \E h \in 1..Len(waiting) :
       /\ waiting[h].state = "forecasting"
       /\ IF pc = "threw"
          THEN /\ waiting' = [waiting EXCEPT
                                ![h].state = "responded", ![h].status = 500,
                                ![h].error = "Failed to generate forecast"]
               /\ UNCHANGED storage
          ELSE IF Len(forecast) = 0
          THEN /\ waiting' = [waiting EXCEPT
                                ![h].state = "responded", ![h].status = 200,
                                ![h].points = forecast, ![h].body = forecast]
               /\ UNCHANGED storage
          ELSE /\ waiting' = [waiting EXCEPT ![h].state = "saving",
                                ![h].points = forecast, ![h].saved = 1]
               /\ storage' = createForecastData(storage,
                               forecastRowOf(waiting[h].productId, forecast[1]))
  /\ route' = NoRequest
  /\ UNCHANGED <<historicalDemand, daysToForecast, now, cal, pc, locals,
                 prev, others>>

\* The next turn of the saving loop up to its await, or res.json(forecast)
\* after the last
AwaitNextSave(h) ==
  /\ ~Running
  /\ waiting[h].state = "saving"
  /\ IF waiting[h].saved < Len(waiting[h].points)
     THEN /\ storage' =
               createForecastData(storage,
                 forecastRowOf(waiting[h].productId,
                               waiting[h].points[waiting[h].saved + 1]))
          /\ waiting' = [waiting EXCEPT ![h].saved = @ + 1]
     ELSE /\ waiting' = [waiting EXCEPT ![h].state = "responded",
                           ![h].status = 200, ![h].body = waiting[h].points]
          /\ UNCHANGED storage
  /\ UNCHANGED <<route, historicalDemand, daysToForecast, now, cal, pc,
                 locals, prev, others>>

\* The storage the requests in flight meet: the seeded one with two
\* products added, the first with two sales on two days, the second with
\* none
HandlerStorage ==
  LET seeded == createProduct(createProduct(seedInitialData(SeedTime),
                                seedProduct(0, One, 0, 0, 0, 0)),
                              seedProduct(0, One, 0, 0, 0, 0))
      sales  == <<movement(AddedProduct, 4, "sale"),
                  movement(AddedProduct, 8, "sale")>>
  IN  postAll(seeded, sales, "daily", 1)

\* The requests in flight at the start: two for the product with sales, or
\* one for the product without sales and one for a seeded product or for a
\* product that does not exist
HandlerRequests ==
  {<<Handler(AddedProduct), Handler(AddedProduct)>>}
    \cup {<<Handler(AddedProduct + 1), Handler(p)>> : p \in {1, AddedProduct + 2}}

InitHandlers ==
  /\ storage = HandlerStorage
  /\ waiting \in HandlerRequests
  /\ route = NoRequest
  /\ pc = "idle"
  /\ historicalDemand = << >>
  /\ daysToForecast = FromInt(DefaultDays)
  /\ now = Noon
  /\ cal = PlainCal
  /\ prev = NoCall
  /\ others = << >>
  /\ InitLocals

NextHandlers ==
  \/ \E h \in 1..Len(waiting) :
       \/ AwaitProduct(h)
       \/ AwaitExisting(h)
       \/ AwaitTransactions(h)
       \/ InvokeForecast(h)
       \/ AwaitNextSave(h)
  \/ Next
  \/ AwaitFirstSave

SpecHandlers == InitHandlers /\ [][NextHandlers]_vars

\* product.reorderQuantity || (product.maxStockLevel - product.currentStock)
\*                         || 10
orderQuantity(product) ==
  IF product.reorderQuantity # 0 THEN product.reorderQuantity
  ELSE IF product.maxStockLevel - product.currentStock # 0
  THEN product.maxStockLevel - product.currentStock
  ELSE 10

\* The keys of supplierGroups in the order the Map holds them: the
\* supplierId of every product that has one, by first occurrence
supplierKeys(products) ==
  LET isFirst(j) == /\ products[j].supplierId # 0
                    /\ \A q \in 1..(j - 1) :
                         products[q].supplierId # products[j].supplierId
      firsts     == {j \in 1..Len(products) : isFirst(j)}
      nth(r)     == CHOOSE j \in firsts :
                      Cardinality({q \in firsts : q < j}) = r - 1
  IN  [r \in 1..Cardinality(firsts) |-> products[nth(r)].supplierId]

\* supplierGroups.get(supplierId)
supplierGroup(products, supplierId) ==
  LET ofSupplier(product) == product.supplierId = supplierId
  IN  SelectSeq(products, ofSupplier)

RECURSIVE addItems(_, _, _, _)
\* for (const product of products) await storage.createPurchaseOrderItem(...)
addItems(st, orderId, products, j) ==
  IF j > Len(products) THEN st
  ELSE LET product == products[j]
           item    == [purchaseOrderId |-> orderId,
                       productId       |-> product.id,
                       quantity        |-> orderQuantity(product),
                       totalPrice      |->
                         FMul(FromInt(orderQuantity(product)), product.price)]
       IN  addItems(createPurchaseOrderItem(st, item), orderId, products,
                    j + 1)

RECURSIVE createOrders(_, _, _, _, _)
\* The loop over supplierGroups.entries(): run is the storage and the
\* createdOrders array so far
createOrders(run, keys, products, t, j) ==
  IF j > Len(keys) THEN run
  ELSE IF ~hasSupplier(run.storage, keys[j])
  THEN createOrders(run, keys, products, t, j + 1)
  ELSE LET ordered == createPurchaseOrder(run.storage,
                        [supplierId |-> keys[j], status |-> "pending",
                         isAutomated |-> TRUE], t)
           order   == ordered.purchaseOrders[Len(ordered.purchaseOrders)]
           filled  == addItems(ordered, order.id,
                               supplierGroup(products, keys[j]), 1)
       IN  createOrders([storage |-> filled,
                         createdOrders |-> Append(run.createdOrders, order)],
                        keys, products, t, j + 1)

\* POST /api/auto-replenish, the whole handler
AutoReplenish ==
  /\ route.state \in {"idle", "responded"}
  /\ route.requests < MaxRequests
  /\ LET request          == [route EXCEPT !.productId = 0,
                                           !.requests = @ + 1]
         lowStockProducts == getProductsWithLowStock(storage)
         run == createOrders([storage |-> storage, createdOrders |-> << >>],
                             supplierKeys(lowStockProducts),
                             lowStockProducts, now, 1)
     IN  IF Len(lowStockProducts) = 0
         THEN /\ route' = [request EXCEPT !.state = "responded",
                             !.status = 200, !.body = << >>, !.error = "",
                             !.message = <<"No products need replenishment">>]
              /\ UNCHANGED storage
         ELSE /\ route' = [request EXCEPT !.state = "responded",
                             !.status = 201, !.body = run.createdOrders,
                             !.error = "",
                             !.message = <<"Created ", Len(run.createdOrders),
                                " purchase orders for ",
                                Len(lowStockProducts), " products">>]
              /\ storage' = run.storage
  /\ UNCHANGED <<historicalDemand, daysToForecast, now, cal, pc, locals,
                 prev, others, waiting>>

\* The storages explored by the replenishment: the seeded one with the
\* products 1 and 2 changed by PUT /api/products/:id, in whether they are
\* active, in their stock (below, at and above a reorder point of
\* ReorderAt) and in their supplier (none, the supplier of product 1, the
\* supplier of the seeded product 3, and one that does not exist)
ReorderAt == 20

ProductChanges ==
  [isActive : BOOLEAN, currentStock : {ReorderAt - 1, ReorderAt, ReorderAt + 1},
   reorderPoint : {ReorderAt}, supplierId : {0, 1, 3, 9}]

ReplenishStorages ==
  {updateProduct(updateProduct(seedInitialData(SeedTime), 1, c1), 2, c2) :
     c1 \in ProductChanges, c2 \in ProductChanges}

InitReplenish ==
  /\ storage \in ReplenishStorages
  /\ InitServer

NextReplenish == AutoReplenish

SpecReplenish == InitReplenish /\ [][NextReplenish]_vars

(***************************************************************************)
(* The purchase-order routes: POST /api/purchase-orders,                   *)
(* POST /api/purchase-orders/:id/items and PUT                             *)
(* /api/purchase-orders/:id/status, each handler whole (its storage calls  *)
(* settle at once), on the seeded storage.  route.productId holds the :id  *)
(* of the order a request names, 0 for a request that names none.          *)
(***************************************************************************)
\* The bodies of POST /api/purchase-orders that are explored: no
\* totalValue is given
OrderBodies ==
  {[supplierId |-> 1, status |-> "pending", isAutomated |-> FALSE]}

\* POST /api/purchase-orders, the whole handler
CreateOrder ==
  /\ route.state \in {"idle", "responded"}
  /\ route.requests < MaxRequests
  /\ \E body \in OrderBodies :
       LET created == createPurchaseOrder(storage, body, now)
           order   == created.purchaseOrders[Len(created.purchaseOrders)]
       IN  /\ storage' = created
           /\ route' = [respond(201, <<order>>, "", << >>)
                          EXCEPT !.productId = 0, !.requests = @ + 1]
  /\ UNCHANGED <<historicalDemand, daysToForecast, now, cal, pc, locals,
                 prev, others, waiting>>

\* The totalPrice values of the item bodies explored: 0.1, 0.2, 0.3 (as
\* the nearest doubles), and the values JSON.parse gives to 1e999 and -1e999
ItemPrices ==
  {Dec(1, 10), Dec(2, 10), Dec(3, 10), Infinity(0), Infinity(1)}

\* The orders a request may name: those stored and one that is not
OrderIds == 1..(Len(storage.purchaseOrders) + 1)

\* POST /api/purchase-orders/:id/items, the whole handler
AddItem ==
  /\ route.state \in {"idle", "responded"}
  /\ route.requests < MaxRequests
  /\ \E orderId \in OrderIds, productId \in {1, 5}, totalPrice \in ItemPrices :
       LET request == [route EXCEPT !.productId = orderId,
                                    !.requests = @ + 1]
           added   == createPurchaseOrderItem(storage,
                        [purchaseOrderId |-> orderId,
                         productId       |-> productId,
                         quantity        |-> 5,
                         totalPrice      |-> totalPrice])
           item    == added.purchaseOrderItems[Len(added.purchaseOrderItems)]
       IN  IF orderId \notin 1..Len(storage.purchaseOrders)
           THEN /\ route' = [request EXCEPT !.state = "responded",
                               !.status = 404, !.body = << >>,
                               !.error = "Purchase order not found",
                               !.message = << >>]
                /\ UNCHANGED storage
           ELSE /\ route' = [request EXCEPT !.state = "responded",
                               !.status = 201, !.body = <<item>>,
                               !.error = "", !.message = << >>]
                /\ storage' = added
  /\ UNCHANGED <<historicalDemand, daysToForecast, now, cal, pc, locals,
                 prev, others, waiting>>

\* The status values explored: the route accepts any that is truthy
Statuses == {"pending", "completed", "cancelled"}

\* PUT /api/purchase-orders/:id/status, the whole handler
SetStatus ==
  /\ route.state \in {"idle", "responded"}
  /\ route.requests < MaxRequests
  /\ \E orderId \in OrderIds, status \in Statuses :
       LET request == [route EXCEPT !.productId = orderId,
                                    !.requests = @ + 1]
           updated == updatePurchaseOrderStatus(storage, orderId, status, now)
       IN  IF orderId \notin 1..Len(storage.purchaseOrders)
           THEN /\ route' = [request EXCEPT !.state = "responded",
                               !.status = 404, !.body = << >>,
                               !.error = "Purchase order not found",
                               !.message = << >>]
                /\ UNCHANGED storage
           ELSE /\ route' = [request EXCEPT !.state = "responded",
                               !.status = 200,
                               !.body = <<updated.purchaseOrders[orderId]>>,
                               !.error = "", !.message = << >>]
                /\ storage' = updated
  /\ UNCHANGED <<historicalDemand, daysToForecast, now, cal, pc, locals,
                 prev, others, waiting>>

SeededStorage == seedInitialData(SeedTime)

InitOrders ==
  /\ storage = SeededStorage
  /\ InitServer

NextOrders == CreateOrder \/ AddItem \/ SetStatus

SpecOrders == InitOrders /\ [][NextOrders]_vars

(***************************************************************************)
(* The properties.                                                         *)
(***************************************************************************)
Returned == pc = "done"

HistoryLen == Len(historicalDemand)

Demands == [j \in 1..HistoryLen |-> historicalDemand[j].demand]

BaselineKnown == HistoryLen > 0 /\ pc \in {"seasonality", "loop", "done"}

SeasonalityKnown == HistoryLen > 0 /\ pc \in {"loop", "done"}

\* C1: for a positive integer daysToForecast and any history, empty or not,
\* forecastDemand returns exactly daysToForecast points.
C1_OutputLength ==
  (Returned /\ IsWhole(daysToForecast))
    => FEq(FromInt(Len(forecast)), daysToForecast)

C1_Witness ==
  /\ Returned
  /\ HistoryLen >= DefaultPeriod
  /\ daysToForecast = FromInt(MaxDays)
  /\ Len(forecast) = MaxDays

\* C2: for a history of non-negative demands (the all-zero histories of any
\* length among them) and a positive horizon, every returned demand is >= 0.
C2_NonNegative ==
  (Returned /\ \A j \in 1..HistoryLen : Demands[j] >= 0)
    => \A j \in 1..Len(forecast) : FLe(Zero(0), forecast[j].demand)

\* d is a whole number of tenths: some integer k has k / 10 = d
IsTenths(d) == FEq(FDiv(MathRound(FMul(d, Ten)), Ten), d)

\* C3: every returned demand has at most one decimal digit, for every
\* history, the empty one included.
C3_OneDecimal ==
  Returned => \A j \in 1..Len(forecast) : IsTenths(forecast[j].demand)

\* C4: point 0 is dated today and each further point falls on the calendar
\* day right after the one before, on the empty-history path and on the
\* other, across month ends and days that are not 24 hours long.
C4_ConsecutiveDays ==
  Returned =>
    /\ Len(forecast) > 0 => LocalDay(cal, forecast[1].date) = LocalDay(cal, now)
    /\ \A j \in 1..(Len(forecast) - 1) :
         LocalDay(cal, forecast[j + 1].date) = LocalDay(cal, forecast[j].date) + 1

\* C5 as claimed: with an empty history every returned demand d has
\* 5 <= d < 10, whatever Math.random() returns in [0, 1).
C5_HalfOpenRange ==
  (Returned /\ HistoryLen = 0) =>
    \A j \in 1..Len(forecast) :
      FLe(Five, forecast[j].demand) /\ FLt(forecast[j].demand, Ten)

\* C5 as amended: with an empty history every returned demand d has
\* 5 <= d <= 10 (5 + r * 5 rounds to 10 for the greatest r below 1).
C5_ClosedRange ==
  (Returned /\ HistoryLen = 0) =>
    \A j \in 1..Len(forecast) :
      FLe(Five, forecast[j].demand) /\ FLe(forecast[j].demand, Ten)

C5_Witness ==
  /\ Returned
  /\ HistoryLen = 0
  /\ Len(forecast) = MaxDays
  /\ \E j \in 1..Len(forecast) : FEq(forecast[j].demand, Ten)
  /\ \E j \in 1..Len(forecast) : FEq(forecast[j].demand, Five)

\* sum of vals[j] * WEIGHTS[off + j] and of WEIGHTS[off + j], j = 1..k
RECURSIVE PairedSum(_, _, _)
PairedSum(vals, off, k) ==
  IF k = 0 THEN Zero(0)
  ELSE FAdd(PairedSum(vals, off, k - 1), FMul(FromInt(vals[k]), WEIGHTS[off + k]))

RECURSIVE PairedWeight(_, _)
PairedWeight(off, k) ==
  IF k = 0 THEN Zero(0) ELSE FAdd(PairedWeight(off, k - 1), WEIGHTS[off + k])

\* C6: for n values, 1 <= n < 6, the baseline is sum(v_i * w_i) / sum(w_i)
\* with w the last n entries of the weight vector, paired in order (the
\* newest value with 0.3); the history [4, 8] gives the baseline 6.4.
C6_TruncatedWeights ==
  /\ (BaselineKnown /\ HistoryLen < Len(WEIGHTS)) =>
       baseline = FDiv(PairedSum(Demands, Len(WEIGHTS) - HistoryLen, HistoryLen),
                       PairedWeight(Len(WEIGHTS) - HistoryLen, HistoryLen))
  /\ (BaselineKnown /\ Demands = <<4, 8>>) => baseline = Dec(64, 10)

C6_Witness == Returned /\ Demands = <<4, 8>> /\ baseline = Dec(64, 10)

IsConstantHistory(c) == \A j \in 1..HistoryLen : Demands[j] = c

\* C7: for 1 to 6 identical values c >= 0 every returned demand lies
\* between 0.9 * c and 1.1 * c (one-decimal numbers, c being whole),
\* whatever Math.random() returns; for six values of 10, in [9.0, 11.0].
C7_JitterBand ==
  /\ \A c \in DemandChoices :
       (Returned /\ HistoryLen \in 1..(DefaultPeriod - 1) /\ IsConstantHistory(c))
         => \A j \in 1..Len(forecast) :
              /\ FLe(Dec(9 * c, 10), forecast[j].demand)
              /\ FLe(forecast[j].demand, Dec(11 * c, 10))
  /\ (Returned /\ Demands = <<10, 10, 10, 10, 10, 10>>)
       => \A j \in 1..Len(forecast) :
            /\ FLe(FromInt(9), forecast[j].demand)
            /\ FLe(forecast[j].demand, FromInt(11))

C7_Witness ==
  /\ Returned
  /\ Demands = <<10, 10, 10, 10, 10, 10>>
  /\ \E j \in 1..Len(forecast) : FEq(forecast[j].demand, FromInt(11))
  /\ \E j \in 1..Len(forecast) : FEq(forecast[j].demand, FromInt(9))

\* C8: for a history of 1 to 6 observations, of any values, the seasonal
\* factors are exactly 7, each exactly 1.
C8_ShortHistoryFactors ==
  (SeasonalityKnown /\ HistoryLen < DefaultPeriod) =>
    /\ Len(seasonalFactors) = 7
    /\ \A b \in 1..Len(seasonalFactors) : seasonalFactors[b] = One

C8_Witness ==
  /\ SeasonalityKnown
  /\ HistoryLen = DefaultPeriod - 1
  /\ IsConstantHistory(0)
  /\ Len(seasonalFactors) = 7

\* C9: for every non-empty history the seasonal profile has exactly 7
\* entries and each is a defined number, so the lookup by a weekday index
\* 0..6 reads a defined factor.
C9_ProfileDefined ==
  SeasonalityKnown =>
    /\ Len(seasonalFactors) = 7
    /\ \A wd \in 0..6 : ArrayGet(seasonalFactors, wd).k \notin {"undefined", "nan"}

SameArguments ==
  /\ prev.called
  /\ prev.historicalDemand = historicalDemand
  /\ prev.daysToForecast = daysToForecast

\* C10 as claimed: two invocations with the same arguments that draw the
\* same random values return the same dates and the same demands.
C10_SameDrawsSameOutput ==
  (Returned /\ SameArguments /\ prev.draws = draws) => forecast = prev.result

\* C10 as amended: so they do when they also read the same clock on the
\* same calendar.
C10_SameDrawsSameClockSameOutput ==
  (Returned /\ SameArguments /\ prev.draws = draws
     /\ prev.now = now /\ prev.cal = cal)
    => forecast = prev.result

C10_Witness ==
  /\ Returned
  /\ SameArguments
  /\ prev.draws = draws
  /\ prev.now = now
  /\ prev.cal = cal
  /\ HistoryLen >= DefaultPeriod
  /\ Len(forecast) = MaxDays
  /\ forecast = prev.result

\* The seasonal factor applied to point j (from 1) of the result, and the
\* value of Math.random() drawn for it
FactorOf(j) == ToNumber(ArrayGet(seasonalFactors, getDay(cal, forecast[j].date)))

DrawOf(j) == RandomValues[draws[j]]

\* x rounded to one decimal
OneDecimal(x) == FDiv(MathRound(FMul(x, Ten)), Ten)

\* The Number nearest to 1.1
ElevenTenths == Num(<<6554, 13107, 26214, 140>>, -52)

FiniteProfile ==
  /\ SeasonalityKnown
  /\ IsFinite(baseline)
  /\ \A b \in 1..Len(seasonalFactors) : IsFinite(seasonalFactors[b])

\* C11: for a non-empty history with a finite baseline and finite seasonal
\* factors, every returned demand is the one-decimal rounding of
\* max(0, baseline * factor * r) for an r with 0.9 <= r <= 1.1, and lies
\* between that rounding for r = 0.9 and for r = 1.1.
C11_JitterWithinTenPercent ==
  (Returned /\ FiniteProfile) =>
    \A j \in 1..Len(forecast) :
      LET bf == FMul(baseline, FactorOf(j))
          r  == FAdd(NineTenths, FMul(DrawOf(j), TwoTenths))
          lo == OneDecimal(MathMax(Zero(0), FMul(bf, NineTenths)))
          hi == OneDecimal(MathMax(Zero(0), FMul(bf, ElevenTenths)))
      IN  /\ FLe(NineTenths, r) /\ FLe(r, ElevenTenths)
          /\ FEq(forecast[j].demand, OneDecimal(MathMax(Zero(0), FMul(bf, r))))
          /\ FLe(lo, forecast[j].demand) /\ FLe(forecast[j].demand, hi)

\* A negative product clamped to 0 and a positive one at the top of its band
C11_Witness ==
  /\ Returned
  /\ FiniteProfile
  /\ Demands = <<-4, 8, 8, 8, 8, 8, 8>>
  /\ Len(forecast) = 2
  /\ FLt(FMul(baseline, FactorOf(1)), Zero(0)) /\ IsZero(forecast[1].demand)
  /\ FLt(Zero(0), forecast[2].demand)
  /\ FEq(forecast[2].demand,
         OneDecimal(FMul(FMul(baseline, FactorOf(2)), ElevenTenths)))

\* Point j (from 1) of the result of the invocation of frame f, as its
\* arguments, the clock and its draws determine it
PointFor(f, j) ==
  LET values == [k \in 1..Len(f.historicalDemand) |->
                   FromInt(f.historicalDemand[k].demand)]
      r      == RandomValues[f.draws[j]]
  IN  IF Len(values) = 0
      THEN [date |-> now + (j - 1) * MsPerDay, demand |-> placeholderDemand(r)]
      ELSE LET date   == setDate(cal, now, getDate(cal, now) + (j - 1))
               factor == ArrayGet(calculateSeasonality(values, DefaultPeriod),
                                  getDay(cal, date))
               base   == calculateWeightedMovingAverage(values, WEIGHTS)
           IN  [date   |-> date,
                demand |-> roundedDemand(FMul(FMul(base, ToNumber(factor)),
                                              randomFactor(r)))]

ResultFor(f) ==
  /\ FEq(FromInt(Len(f.forecast)), f.daysToForecast)
  /\ FEq(FromInt(Len(f.draws)), f.daysToForecast)
  /\ \A j \in 1..Len(f.forecast) : f.forecast[j] = PointFor(f, j)

ResultFromInputs == ResultFor(Frame)

\* C12: forecastDemand has no side effects: no step changes the caller's
\* history, the weight vector is [0.1, 0.1, 0.15, 0.15, 0.2, 0.3] after the
\* average has used it (truncated or not), and what an invocation returns
\* is determined by its own arguments, clock and draws, nothing being
\* carried over from the invocation before.
C12_NoSideEffects ==
  /\ [][historicalDemand' = historicalDemand]_vars
  /\ [](BaselineKnown => weights = WEIGHTS)
  /\ [](Returned => ResultFromInputs)

\* A second invocation, on short data, returned a day after the first
C12_Witness ==
  /\ Returned
  /\ prev.called
  /\ prev.now # now
  /\ Demands = <<4, 8>>
  /\ weights = WEIGHTS
  /\ prev.historicalDemand = historicalDemand
  /\ Len(forecast) = MaxDays
  /\ forecast # prev.result

\* Every invocation in progress or returned, the running one first
Invocations == <<Frame>> \o others

\* C13: with the steps of two or more invocations interleaved, every
\* invocation returns what its own arguments, the clock and its own draws
\* determine (what it returns when run alone), and a step of one invocation
\* leaves the frame of every other as it was.
C13_InterleavingSafe ==
  /\ [](\A p \in DOMAIN Invocations :
          Invocations[p].pc = "done" => ResultFor(Invocations[p]))
  /\ [][\/ others' = others
        \/ \E p \in DOMAIN others :
             others' = [others EXCEPT ![p] = Frame] /\ Frame' = others[p]]_vars

\* Three invocations have returned, the running one after the others, and
\* two that were given the same history returned different demands
C13_Witness ==
  /\ Len(others) = 2
  /\ \A p \in DOMAIN Invocations : Invocations[p].pc = "done"
  /\ HistoryLen >= DefaultPeriod
  /\ others[1].historicalDemand = historicalDemand
  /\ others[1].forecast # forecast
  /\ Len(others[2].historicalDemand) = 0

Threw == pc = "threw"

\* C14: forecastDemand raises no exception for a history with negative
\* demands, for a positive horizon that is not whole, for an empty history,
\* or for any of these together: it returns a forecast.
C14_NoException == ~Threw

AllZeroHistory == HistoryLen > 0 /\ IsConstantHistory(0)

\* C15 as claimed: for a non-empty history of zeros, of any length, every
\* returned demand is NaN.
C15_AllZeroGivesNaN ==
  (Returned /\ AllZeroHistory) =>
    \A j \in 1..Len(forecast) : forecast[j].demand = NaN

\* C15 as amended: for a history of zeros as long as the period or longer,
\* every seasonal factor (0 / 0) and every returned demand is NaN; for a
\* shorter one the factors are 1 and every returned demand is 0.
C15_LongAllZeroGivesNaN ==
  /\ (SeasonalityKnown /\ AllZeroHistory /\ HistoryLen >= DefaultPeriod) =>
       /\ \A b \in 1..Len(seasonalFactors) : seasonalFactors[b] = NaN
       /\ \A j \in 1..Len(forecast) : forecast[j].demand = NaN
  /\ (SeasonalityKnown /\ AllZeroHistory /\ HistoryLen < DefaultPeriod) =>
       /\ \A b \in 1..Len(seasonalFactors) : seasonalFactors[b] = One
       /\ \A j \in 1..Len(forecast) : IsZero(forecast[j].demand)

C15_Witness ==
  /\ Returned
  /\ AllZeroHistory
  /\ HistoryLen = DefaultPeriod
  /\ Len(forecast) = MaxDays
  /\ \A j \in 1..Len(forecast) : forecast[j].demand = NaN

\* The sum of the whole numbers vals[j], j in S
RECURSIVE IntSum(_, _)
IntSum(vals, S) ==
  IF S = {} THEN 0
  ELSE LET j == CHOOSE k \in S : TRUE IN vals[j] + IntSum(vals, S \ {j})

\* The array positions (from 0) congruent to b modulo 7, as indices from 1
PositionsOf(b) == {j \in 1..HistoryLen : (j - 1) % 7 = b}

MeanOver(S) == FDiv(FromInt(IntSum(Demands, S)), FromInt(Cardinality(S)))

\* calculateSeasonality has just returned to line 102
SeasonalityReturned == HistoryLen > 0 /\ pc = "loop" /\ i = 0

NonZeroMean == IntSum(Demands, 1..HistoryLen) # 0

\* C19: for a history of 7 or more values whose mean is not zero, the
\* seasonal factor of each b in 0..6 is the mean of the values at the
\* positions congruent to b modulo 7 divided by the mean of all values.
C19_FactorIsBucketMeanOverMean ==
  (SeasonalityReturned /\ HistoryLen >= 7 /\ NonZeroMean) =>
    /\ Len(seasonalFactors) = 7
    /\ \A b \in 0..6 :
         ArrayGet(seasonalFactors, b) =
           FDiv(MeanOver(PositionsOf(b)), MeanOver(1..HistoryLen))

\* A history longer than a period with its one non-zero value in the
\* bucket that holds two positions
C19_Witness ==
  /\ SeasonalityReturned
  /\ HistoryLen = DefaultPeriod + 1
  /\ NonZeroMean
  /\ Demands[DefaultPeriod + 1] = 8
  /\ \A j \in 1..DefaultPeriod : Demands[j] = 0
  /\ seasonalFactors[1] = FromInt(4)
  /\ IsZero(seasonalFactors[2])

\* The weekday (0 = Sunday) k days after today: the clock reads an instant
\* of the day whose weekday is cal.wd1
WeekdayAfter(k) == (cal.wd1 + k) % 7

\* What the observations at the positions congruent to b modulo 7 make of
\* profile entry b, the dates of the observations playing no part
EntryFromPositions(b) ==
  IF HistoryLen < 7 THEN One
  ELSE FDiv(MeanOver(PositionsOf(b)), MeanOver(1..HistoryLen))

\* C20: the seasonal factor applied at day offset k is the profile entry of
\* index weekday(today + k), Sunday being 0, and that entry was built from
\* the values at the array positions congruent to its index modulo 7,
\* whatever the dates of the observations; offsets k and k + 7 use the
\* same entry.
C20_FactorByForecastWeekday ==
  (Returned /\ HistoryLen > 0) =>
    /\ \A b \in 0..6 : ArrayGet(seasonalFactors, b) = EntryFromPositions(b)
    /\ \A j \in 1..Len(forecast) :
         forecast[j].demand =
           roundedDemand(FMul(FMul(baseline,
                                   EntryFromPositions(WeekdayAfter(j - 1))),
                              randomFactor(DrawOf(j))))
    /\ \A j \in 1..(Len(forecast) - 7) : FactorOf(j) = FactorOf(j + 7)

\* Eight days from a Wednesday, the observations all dated on one day: day
\* 0 and day 7 use entry 3
C20_Witness ==
  /\ Returned
  /\ Demands = <<1, 2, 3, 4, 5, 6, 7>>
  /\ historicalDemand[2].date - historicalDemand[1].date = MsPerHour
  /\ cal.wd1 = 3
  /\ Len(forecast) = 8
  /\ FactorOf(1) = One
  /\ FactorOf(8) = One
  /\ FactorOf(2) = Dec(5, 4)

\* The forecast route has just invoked forecastDemand
RouteInvoked == route.state = "forecasting" /\ pc = "call"

\* C16: whenever the forecast route invokes forecastDemand, the observations
\* it passes are in ascending date order, the most recent sale last.
C16_ObservationsAscending ==
  RouteInvoked =>
    \A j \in 1..HistoryLen : \A q \in 1..HistoryLen :
      j < q => historicalDemand[j].date <= historicalDemand[q].date

\* The stored forecast rows of a product, whatever their order
StoredRowsOf(st, productId) ==
  {st.forecastData[j] : j \in {q \in 1..Len(st.forecastData) :
                                 st.forecastData[q].productId = productId}}

\* A forecast request for productId is received in this step
Requested(productId) ==
  /\ route'.requests = route.requests + 1
  /\ route'.productId = productId

Elements(s) == {s[j] : j \in 1..Len(s)}

\* The purchase orders and the items that the step has added to the storage
CreatedOrders ==
  {storage'.purchaseOrders[j] :
     j \in (Len(storage.purchaseOrders) + 1)..Len(storage'.purchaseOrders)}

CreatedItems ==
  {item \in Elements(storage'.purchaseOrderItems) :
     item.purchaseOrderId \in {order.id : order \in CreatedOrders}}

SupplierExists(product) == product.supplierId \in 1..Len(storage.suppliers)

\* C18: one replenishment call puts every active product at or below its
\* reorder point whose supplier exists into exactly one of the orders the
\* call creates, that order pending, automated and addressed to the
\* product's supplier with one order for each supplier, and puts no
\* product above its reorder point into any of them.
C18_ReplenishesLowStock ==
  [][route'.requests = route.requests + 1 =>
       /\ \A product \in Elements(storage.products) :
            (/\ product.isActive
             /\ product.currentStock <= product.reorderPoint
             /\ SupplierExists(product))
            => /\ Cardinality({item \in CreatedItems :
                                 item.productId = product.id}) = 1
               /\ \A item \in CreatedItems :
                    item.productId = product.id =>
                      \E order \in CreatedOrders :
                        /\ order.id = item.purchaseOrderId
                        /\ order.status = "pending"
                        /\ order.isAutomated
                        /\ order.supplierId = product.supplierId
       /\ \A o1 \in CreatedOrders : \A o2 \in CreatedOrders :
            o1.supplierId = o2.supplierId => o1.id = o2.id
       /\ \A product \in Elements(storage.products) :
            product.currentStock > product.reorderPoint =>
              \A item \in CreatedItems : item.productId # product.id
       /\ {order.id : order \in Elements(route'.body)}
            = {order.id : order \in CreatedOrders}]_vars

\* Reached: a call that found product 1 exactly at its reorder point, with
\* the supplier of product 3, and product 2 above its reorder point: one
\* order of two items
C18_Witness ==
  /\ route.state = "responded"
  /\ route.requests = 1
  /\ route.status = 201
  /\ Len(route.body) = 1
  /\ storage.products[1].isActive
  /\ storage.products[1].currentStock = storage.products[1].reorderPoint
  /\ storage.products[1].supplierId = storage.products[3].supplierId
  /\ storage.products[2].currentStock > storage.products[2].reorderPoint
  /\ Len(storage.purchaseOrders) = 4
  /\ Len(storage.purchaseOrderItems) = 5

\* calculateWeightedMovingAverage has just returned to forecastDemand
BaselineReturned == HistoryLen > 0 /\ pc = "seasonality"

\* The history with every value older than its last min(6, n) replaced by v
WithOlderValues(v) ==
  [j \in 1..HistoryLen |->
     IF j <= HistoryLen - Len(WEIGHTS) THEN FromInt(v) ELSE FromInt(Demands[j])]

\* C21: the baseline depends only on the last min(6, n) observations: any
\* history of the same length with the same last min(6, n) values, whatever
\* its older values, has the same baseline.
C21_BaselineFromRecentValues ==
  BaselineReturned =>
    \A v \in SignedValues :
      baseline = calculateWeightedMovingAverage(WithOlderValues(v), WEIGHTS)

\* Reached: a baseline of a history whose oldest value differs from all the
\* values of its last six
C21_Witness ==
  /\ BaselineReturned
  /\ HistoryLen > Len(WEIGHTS)
  /\ \A j \in (HistoryLen - Len(WEIGHTS) + 1)..HistoryLen : Demands[j] = 8
  /\ Demands[1] = -8
  /\ baseline = FromInt(8)

\* The last min(6, n) demands of the history
RecentDemands == SliceLast(Demands, Len(WEIGHTS))

LeastOf(s) == CHOOSE x \in Elements(s) : \A y \in Elements(s) : x <= y

GreatestOf(s) == CHOOSE x \in Elements(s) : \A y \in Elements(s) : x >= y

\* The sum of the weights the baseline was divided by, added up as the loop
\* of calculateWeightedMovingAverage adds them
UsedWeightSum ==
  LET w == SliceLast(WEIGHTS, HistoryLen) IN SumTo(w, Len(w))

\* 2^-40: far above the rounding error of a baseline of demands up to 10,
\* far below one decimal
RoundingSlack == Num(<<0, 0, 0, 128>>, -92)

\* C22 as stated: for every non-empty history the truncated weights sum to
\* at most 1.0 and the baseline lies between the least and the greatest of
\* the last min(6, n) demands (so that it is c when they all are c).
C22_BaselineWithinRecentRange ==
  BaselineReturned =>
    /\ FLe(UsedWeightSum, One)
    /\ FLe(FromInt(LeastOf(RecentDemands)), baseline)
    /\ FLe(baseline, FromInt(GreatestOf(RecentDemands)))

\* C22 amended: the truncated weights sum to at most 1.0 and the baseline
\* lies between the least and the greatest of the last min(6, n) demands up
\* to the rounding of the binary64 sums and quotient.
C22_BaselineWithinRoundedRange ==
  BaselineReturned =>
    /\ FLe(UsedWeightSum, One)
    /\ FLe(FromInt(LeastOf(RecentDemands)), FAdd(baseline, RoundingSlack))
    /\ FLe(baseline, FAdd(FromInt(GreatestOf(RecentDemands)), RoundingSlack))

\* Reached: three demands of 10, whose baseline is not 10 but the next
\* Number above it
C22_Witness ==
  /\ BaselineReturned
  /\ Demands = <<10, 10, 10>>
  /\ FLt(Ten, baseline)
  /\ FLt(baseline, FAdd(Ten, RoundingSlack))

\* The value of forecastedDemand before line 123, for the j-th day
JitteredOf(j) ==
  FMul(FMul(baseline, FactorOf(j)), randomFactor(DrawOf(j)))

Negated(x) == [x EXCEPT !.s = 1]

\* Finite values around the places where rounding and clamping meet: -8,
\* -0.25, -0.15, -0.05, -0.04, -0, +0, 0.04, 0.05, 0.15, 0.25
RoundingProbes ==
  LET positive == {Num(<<5243, 3932, 27525, 163>>, -57),
                   Num(<<6554, 13107, 26214, 204>>, -57),
                   Num(<<13107, 26214, 19660, 153>>, -55),
                   Num(<<0, 0, 0, 128>>, -54)}
  IN  positive \cup {Negated(x) : x \in positive}
        \cup {Zero(0), Zero(1), FromInt(-8)}

ProbesAreNearest ==
  RoundingProbes =
    {Dec(n, 100) : n \in {-25, -15, -5, -4, 4, 5, 15, 25}}
      \cup {Zero(0), Zero(1), FromInt(-8)}

\* The spec's order: max(0, x) first, then the rounding to one decimal
ClampThenRound(x) == OneDecimal(MathMax(Zero(0), x))

\* C23: rounding to one decimal and then taking max(0, .), as the code does,
\* gives for every finite jittered value, negative, zero or positive, the
\* same Number as max(0, .) first and the rounding after it.
C23_RoundThenClampIsClampThenRound ==
  (Returned /\ FiniteProfile) =>
    /\ \A j \in 1..Len(forecast) :
         forecast[j].demand = ClampThenRound(JitteredOf(j))
    /\ \A x \in RoundingProbes : roundedDemand(x) = ClampThenRound(x)

\* Reached: a returned forecast with a day whose jittered value is negative
\* and a day whose jittered value is positive
C23_Witness ==
  /\ Returned
  /\ FiniteProfile
  /\ Len(forecast) = 2
  /\ FLt(JitteredOf(1), Zero(0))
  /\ forecast[1].demand = Zero(0)
  /\ FLt(Zero(0), JitteredOf(2))
  /\ FLt(Zero(0), forecast[2].demand)

\* The stored transactions of the requested product whose type is "sale"
StoredSales ==
  {t \in Elements(storage.transactions) :
     t.productId = route.productId /\ t.transactionType = "sale"}

\* How many observations passed, and how many stored sales, have a date and
\* a demand
ObservationsWith(date, demand) ==
  Cardinality({j \in 1..HistoryLen :
                 /\ historicalDemand[j].date = date
                 /\ historicalDemand[j].demand = demand})

SalesWith(date, quantity) ==
  Cardinality({t \in StoredSales :
                 t.transactionDate = date /\ t.quantity = quantity})

\* C24: the observations the forecast route passes to forecastDemand are
\* the stored sale transactions of the requested product, one observation
\* for each with its date and its quantity as demand, and nothing else.
C24_ObservationsAreProductSales ==
  RouteInvoked =>
    /\ HistoryLen = Cardinality(StoredSales)
    /\ \A t \in StoredSales :
         ObservationsWith(t.transactionDate, t.quantity)
           = SalesWith(t.transactionDate, t.quantity)
    /\ \A j \in 1..HistoryLen :
         ObservationsWith(historicalDemand[j].date, historicalDemand[j].demand)
           = SalesWith(historicalDemand[j].date, historicalDemand[j].demand)

\* Reached: an invocation with the one sale of the added product, while the
\* storage also holds a transaction of it that is no sale and sales of
\* other products
C24_Witness ==
  /\ RouteInvoked
  /\ route.productId = AddedProduct
  /\ HistoryLen = 1
  /\ \E t \in Elements(storage.transactions) :
       t.productId = AddedProduct /\ t.transactionType # "sale"
  /\ \E t \in Elements(storage.transactions) :
       t.productId # AddedProduct /\ t.transactionType = "sale"

AllResponded ==
  /\ Len(waiting) > 0
  /\ \A h \in 1..Len(waiting) : waiting[h].state = "responded"

\* C25: however concurrent forecast requests for one product without a
\* stored forecast interleave, once they are answered the storage holds the
\* rows of at most one generation for it: at most 7 rows, and no two rows
\* for the same day.
C25_OneGenerationStored ==
  AllResponded =>
    \A p \in RequestedProducts :
      LET rows == rowsOfProduct(storage.forecastData, p)
      IN  /\ Len(rows) <= DefaultDays
          /\ \A j \in 1..Len(rows) : \A q \in 1..Len(rows) :
               rows[j].date = rows[q].date => j = q

\* Two response bodies are the same sequence of records: the same fields
\* with the same values, in the same order
SameRecords(a, b) ==
  /\ Len(a) = Len(b)
  /\ \A j \in 1..Len(a) :
       /\ DOMAIN a[j] = DOMAIN b[j]
       /\ \A f \in DOMAIN a[j] : a[j][f] = b[j][f]

\* C26: the forecast route is idempotent in what it returns: the body of a
\* request that generated a forecast and the body of the request for the
\* same product that follows it are the same sequence of records, with the
\* same field names, dates and demand values.
C26_NextRequestSameBody ==
  [][(/\ route.state = "responded"
      /\ route.status = 200
      /\ Requested(route.productId)
      /\ route'.state = "responded")
     => SameRecords(route'.body, route.body)]_vars

RECURSIVE orderedQuantity(_, _, _)
\* The quantities of the purchase order items j.. of a product, summed
orderedQuantity(st, productId, j) ==
  IF j > Len(st.purchaseOrderItems) THEN 0
  ELSE (IF st.purchaseOrderItems[j].productId = productId
        THEN st.purchaseOrderItems[j].quantity ELSE 0)
       + orderedQuantity(st, productId, j + 1)

\* C27: under the purchase-order routes, where stock changes only by the
\* receipts of updatePurchaseOrderStatus, the stock of every product exceeds
\* its seeded stock by at most the quantities of the items that order it,
\* each counted once: no item is received a second time, whatever the
\* sequence of status updates
C27_ItemsReceivedAtMostOnce ==
  \A p \in 1..Len(storage.products) :
    storage.products[p].currentStock
      <= SeededStorage.products[p].currentStock
           + orderedQuantity(storage, p, 1)

RECURSIVE sumOfPrices(_, _)
\* items.reduce((sum, item) => sum + item.totalPrice, 0) over the first j
\* items
sumOfPrices(items, j) ==
  IF j = 0 THEN Zero(0)
  ELSE FAdd(sumOfPrices(items, j - 1), ToNumber(items[j].totalPrice))

\* Two values are the same number (NaN taken as the same as NaN); a value
\* that is undefined is no number
SameNumber(a, b) ==
  /\ a.k # "undefined"
  /\ b.k # "undefined"
  /\ (FEq(a, b) \/ (a.k = "nan" /\ b.k = "nan"))

\* C28: under the purchase-order routes, where every order is created
\* without a totalValue, the totalValue of every order is the sum of the
\* totalPrice of its items, added in the order the items were created
C28_TotalValueIsSumOfItems ==
  \A o \in 1..Len(storage.purchaseOrders) :
    LET items == listPurchaseOrderItems(storage, o)
    IN  SameNumber(storage.purchaseOrders[o].totalValue,
                   sumOfPrices(items, Len(items)))

\* The pending automated purchase orders that have the product as an item
pendingAutomatedOrdersOf(st, productId) ==
  {o \in 1..Len(st.purchaseOrders) :
     /\ st.purchaseOrders[o].status = "pending"
     /\ st.purchaseOrders[o].isAutomated
     /\ \E j \in 1..Len(st.purchaseOrderItems) :
          /\ st.purchaseOrderItems[j].purchaseOrderId = o
          /\ st.purchaseOrderItems[j].productId = productId}

\* C29: under the replenishment route alone (no stock changes between the
\* calls), every low-stock product is an item of at most one pending
\* automated purchase order
C29_OnePendingOrderPerProduct ==
  \A p \in 1..Len(storage.products) :
    isLowStock(storage.products[p])
      => Cardinality(pendingAutomatedOrdersOf(storage, p)) <= 1

RECURSIVE CountedSum(_, _)
\* The sum over the buckets 0..b-1 of count * factor, the count of a bucket
\* being the number of observations at its positions
CountedSum(factors, b) ==
  IF b = 0 THEN Zero(0)
  ELSE FAdd(CountedSum(factors, b - 1),
            FMul(FromInt(Cardinality(PositionsOf(b - 1))), factors[b]))

\* C30 as stated: for a history of n >= 7 values with non-zero mean the
\* factors, each counted as often as its bucket has observations, sum to n;
\* when n is a multiple of 7 the seven factors average exactly 1; a constant
\* history gives factors that all equal 1.
C30_CountedFactorsSumToLength ==
  (SeasonalityReturned /\ HistoryLen >= 7 /\ NonZeroMean) =>
    /\ FEq(CountedSum(seasonalFactors, 7), FromInt(HistoryLen))
    /\ (HistoryLen % 7 = 0 =>
          FEq(FDiv(SumTo(seasonalFactors, 7), FromInt(7)), One))
    /\ ((\E c \in DemandChoices : IsConstantHistory(c)) =>
          \A b \in 1..7 : seasonalFactors[b] = One)

\* The factors without their signs
Magnitudes(factors) == [b \in DOMAIN factors |-> [factors[b] EXCEPT !.s = 0]]

\* x is y up to the rounding of the divisions and additions: they differ by
\* at most RoundingSlack times the scale
NearlyEqual(x, y, scale) ==
  /\ FLe(x, FAdd(y, FMul(RoundingSlack, scale)))
  /\ FLe(y, FAdd(x, FMul(RoundingSlack, scale)))

\* C30 as the code has it: the counted factors sum to n, and the seven
\* factors of a history of a multiple of 7 values average 1, up to rounding
\* (relative to the same sums of the factors' magnitudes); a constant
\* history of a whole number gives factors that all equal 1.
C30_CountedFactorsSumNearLength ==
  (SeasonalityReturned /\ HistoryLen >= 7 /\ NonZeroMean) =>
    /\ NearlyEqual(CountedSum(seasonalFactors, 7), FromInt(HistoryLen),
                   CountedSum(Magnitudes(seasonalFactors), 7))
    /\ (HistoryLen % 7 = 0 =>
          NearlyEqual(FDiv(SumTo(seasonalFactors, 7), FromInt(7)), One,
                      FDiv(SumTo(Magnitudes(seasonalFactors), 7), FromInt(7))))
    /\ ((\E c \in DemandChoices : IsConstantHistory(c)) =>
          \A b \in 1..7 : seasonalFactors[b] = One)

\* Reached: a history longer than a period, of a negative first value and
\* 8 after it, whose counted factors do not sum to its length exactly
C30_Witness ==
  /\ SeasonalityReturned
  /\ HistoryLen = DefaultPeriod + 1
  /\ NonZeroMean
  /\ Demands[1] < 0
  /\ \A j \in 2..HistoryLen : Demands[j] = 8
  /\ ~FEq(CountedSum(seasonalFactors, 7), FromInt(HistoryLen))

====
